---- MODULE Spec2Model ----
(***************************************************************************)
(* Velocity package manager: resolver, installer, content cache and        *)
(* lockfile codec, modelled from src/src.                                  *)
(***************************************************************************)
EXTENDS Integers, Sequences, FiniteSets, TLC

VARIABLES
    registry,           \* registry metadata: name -> set of version metadata
    archives,           \* what the registry serves for a tarball URL
    metadata_cache,     \* cache: <root>/metadata/<name>.json entries within their TTL
    root_deps,          \* package.json dependency map handed to resolve
    pc,                 \* position of `velocity install` (cli/commands/install.rs)
    run,                \* number of the current install run
    published,          \* versions published to the registry since Init
    existing_lockfile,  \* result of the last Lockfile::load: [status, lockfile]
    queue,              \* Resolver::resolve: worklist of (name, constraint, depth)
    visited,            \* Resolver::resolve: visited "name@constraint" keys
    resolved_versions,  \* Resolver::resolve: name -> chosen version
    selected,           \* history: (name, constraint, version) of each processed site
    graph_nodes,        \* DependencyGraph.nodes with the node label name@version
    graph_edges,        \* DependencyGraph.graph edges
    lockfile,           \* Resolution.lockfile (in-memory Lockfile)
    to_install,         \* Resolution.to_install
    from_cache,         \* Resolution.from_cache
    error,              \* the error the current operation returned ("" = none)
    args,               \* InstallArgs of the current run
    idx,                \* Installer::install: position in to_install
    counts,             \* InstallResult counters
    fetched,            \* history: bag of archive GETs issued in the current run
    tarballs,           \* cache: <root>/tarballs/<name>-<version>.tgz: [present, bytes]
    fs_files,           \* file system: <<package id, file path>> of every file extract wrote
    fs_dirs,            \* cache: extracted-tree directories that exist
    completed,          \* history: package dirs whose extraction ran to the end
    node_modules,       \* project node_modules: name -> linked package dir
    lock_file,          \* velocity.lock on disk: [exists, content]
    lf_op,              \* history: the last Lockfile operation and its argument
    meta_fetched,       \* history: name -> metadata GETs issued in the current resolve
    proc,               \* the runs that share one cache, step by step: run -> state
    pool,               \* a bounded-concurrency batch of fetch tasks
    now,                \* SystemTime::now() in seconds since the epoch
    metadata_files,     \* cache: <root>/metadata/<name>.json as written: [exists, data, cached_at]
    content_store,      \* ContentStore: the files under <root>/content, [path, bytes]
    security,           \* SecurityManager and its PermissionManager: [config, package_permissions, cached_decisions]
    policy_log,         \* history: the policy checks and requests of the current Installer::install, in order
    call                \* history: the last call of a function under study: [op, input, output]

vars == <<registry, archives, metadata_cache, root_deps, pc, run, published, existing_lockfile,
          queue, visited, resolved_versions, selected, graph_nodes, graph_edges,
          lockfile, to_install, from_cache, error, args, idx, counts, fetched,
          tarballs, fs_files, fs_dirs, completed, node_modules, lock_file,
          lf_op, meta_fetched, proc, pool, now, metadata_files, content_store, security, policy_log, call>>

(***************************************************************************)
(* Bounds of the model.                                                    *)
(***************************************************************************)
MaxRuns == 2
MaxPublish == 1
MaxPackages == 2

Names == {"a", "b", "c", "d", "@s/p"}

\* CacheManager: name.replace('/', "+").replace('@', ""), over the names of
\* the model ("e" is a name the registry does not know).
safe_name(name) == IF name = "@s/p" THEN "s+p" ELSE name
SafeNames == {safe_name(n) : n \in Names \cup {"e"}}
NoVersion == <<>>

(***************************************************************************)
(* Helpers on sequences and sets.                                          *)
(***************************************************************************)
Range(s) == {s[i] : i \in DOMAIN s}

Perms(S) ==
    {f \in [1..Cardinality(S) -> S] : \A x \in S : \E i \in DOMAIN f : f[i] = x}

(***************************************************************************)
(* resolver/version.rs: semver versions are <<major, minor, patch>>, or    *)
(* <<major, minor, patch, pre>> with a pre-release tag.                    *)
(***************************************************************************)
PreTags == <<"alpha", "beta">>
PreRank(tag) == CHOOSE i \in DOMAIN PreTags : PreTags[i] = tag

\* semver::Version's order on the pre-release part: a version with a tag is
\* below the same version without one, and tags compare as strings.
PreLt(v, w) ==
    IF Len(v) = 3 THEN FALSE
    ELSE IF Len(w) = 3 THEN TRUE
    ELSE PreRank(v[4]) < PreRank(w[4])

VLt(v, w) ==
    \/ v[1] < w[1]
    \/ v[1] = w[1] /\ v[2] < w[2]
    \/ v[1] = w[1] /\ v[2] = w[2] /\ v[3] < w[3]
    \/ v[1] = w[1] /\ v[2] = w[2] /\ v[3] = w[3] /\ PreLt(v, w)

VLe(v, w) == v = w \/ VLt(v, w)

\* A constraint string is [op, parts]: the operator prefix and the dotted
\* numbers that follow it ("^1" is [op |-> "^", parts |-> <<1>>]; ">=" alone
\* has no parts and "1.2.3.4" has four).  A string of comparators separated
\* by spaces is [op |-> " ", parts |-> <<comparator, ...>>], one of operands
\* separated by "||" is [op |-> "||", parts |-> <<operand, ...>>].
CStr(op, parts) == [op |-> op, parts |-> parts]

\* VersionConstraint::parse_version: partial versions are padded with zeros;
\* NoVersion stands for Err(InvalidVersionConstraint), which semver gives
\* for anything but three numbers.
parse_version(parts) ==
    CASE Len(parts) = 1 -> <<parts[1], 0, 0>>
      [] Len(parts) = 2 -> <<parts[1], parts[2], 0>>
      [] Len(parts) = 3 -> <<parts[1], parts[2], parts[3]>>
      [] OTHER -> NoVersion

PrefixOperators == {">=", "<=", ">", "<", "^", "~", "="}
ConstraintErr == [kind |-> "Err", v |-> NoVersion]
ConstraintAny == [kind |-> "Any", v |-> NoVersion]
PrefixKind(op) ==
    CASE op = ">=" -> "GreaterOrEqual"
      [] op = "<=" -> "LessOrEqual"
      [] op = ">" -> "GreaterThan"
      [] op = "<" -> "LessThan"
      [] op = "^" -> "Caret"
      [] op = "~" -> "Tilde"
      [] op = "=" -> "Exact"

\* VersionConstraint::parse.  Two comparators give a Range; three or more
\* fall through to the prefix operators, where the rest of the string is no
\* version; "||" keeps the first operand; an operator whose rest is no
\* version returns the error of parse_version; only a string without
\* operator that is no version falls back to Any.
RECURSIVE parse(_)
parse(s) ==
    CASE s.op \in {"*", "latest", ""} /\ s.parts = <<>> -> ConstraintAny
      [] s.op = " " /\ Len(s.parts) = 2 ->
            IF parse(s.parts[1]).kind = "Err" THEN ConstraintErr
            ELSE IF parse(s.parts[2]).kind = "Err" THEN ConstraintErr
            ELSE [kind |-> "Range", v |-> NoVersion,
                  left |-> parse(s.parts[1]), right |-> parse(s.parts[2])]
      [] s.op = " " /\ Len(s.parts) # 2 ->
            IF s.parts[1].op \in PrefixOperators THEN ConstraintErr ELSE ConstraintAny
      [] s.op = "||" -> parse(s.parts[1])
      [] s.op \in PrefixOperators ->
            IF parse_version(s.parts) = NoVersion THEN ConstraintErr
            ELSE [kind |-> PrefixKind(s.op), v |-> parse_version(s.parts)]
      [] OTHER ->
            IF parse_version(s.parts) = NoVersion THEN ConstraintAny
            ELSE [kind |-> "Exact", v |-> parse_version(s.parts)]

\* VersionConstraint::matches
RECURSIVE matches(_, _)
matches(c, version) ==
    CASE c.kind = "Exact" -> version = c.v
      [] c.kind = "Caret" ->
            IF c.v[1] = 0
            THEN IF c.v[2] = 0
                 THEN version[1] = 0 /\ version[2] = 0 /\ version[3] = c.v[3]
                 ELSE version[1] = 0 /\ version[2] = c.v[2] /\ version[3] >= c.v[3]
            ELSE version[1] = c.v[1] /\ VLe(c.v, version)
      [] c.kind = "Tilde" ->
            version[1] = c.v[1] /\ version[2] = c.v[2] /\ version[3] >= c.v[3]
      [] c.kind = "GreaterOrEqual" -> VLe(c.v, version)
      [] c.kind = "GreaterThan" -> VLt(c.v, version)
      [] c.kind = "LessOrEqual" -> VLe(version, c.v)
      [] c.kind = "LessThan" -> VLt(version, c.v)
      [] c.kind = "Range" -> matches(c.left, version) /\ matches(c.right, version)
      [] OTHER -> TRUE

MaxVersion(S) == CHOOSE v \in S : \A w \in S : VLe(w, v)

\* Mutant of find_matching_version: the matching versions are sorted the
\* other way round and the lowest one is taken.
find_matching_version_lowest(versions, constraint) ==
    LET matching == {v \in versions : matches(constraint, v)}
    IN IF matching = {} THEN NoVersion
       ELSE CHOOSE v \in matching : \A w \in matching : VLe(v, w)

\* Mutant of find_matching_version: the constraint filter is lost.
find_matching_version_unfiltered(versions, constraint) ==
    IF versions = {} THEN NoVersion ELSE MaxVersion(versions)

\* Resolver::find_matching_version: the matching versions sorted descending,
\* the first one taken; NoVersion stands for Err(InvalidVersionConstraint).
find_matching_version(versions, constraint) ==
    LET matching == {v \in versions : matches(constraint, v)}
    IN IF matching = {} THEN NoVersion ELSE MaxVersion(matching)

(***************************************************************************)
(* Registry metadata (registry/types.rs) and the archives it serves.       *)
(***************************************************************************)
Caret1 == CStr("^", <<1>>)
Caret100 == CStr("^", <<1, 0, 0>>)
Caret150 == CStr("^", <<1, 5, 0>>)
Caret3 == CStr("^", <<3>>)
Exact100 == CStr("", <<1, 0, 0>>)
Exact200 == CStr("", <<2, 0, 0>>)
Star == CStr("*", <<>>)

\* The bytes of an archive are modelled by the tar entries they decode to.
\* Every published archive holds a manifest and one file under package/.
GoodBytes ==
    <<[path |-> <<"package", "package.json">>, absolute |-> FALSE, nul |-> FALSE, kind |-> "file"],
      [path |-> <<"package", "lib", "index.js">>, absolute |-> FALSE, nul |-> FALSE, kind |-> "file"]>>

\* An integrity string "<algo>-<base64 digest>"; the digest of bytes b under
\* an algorithm is modelled collision-free as the pair <<algo, b>>.
Digest(algo, bytes) == <<algo, bytes>>
IntegrityOf(algo, bytes) ==
    IF algo = "" THEN [algo |-> "", digest |-> <<>>]
    ELSE [algo |-> algo, digest |-> Digest(algo, bytes)]


Url(name, version) == <<name, version>>

\* VersionMetadata: dependency maps are sets of <<name, constraint string>>.
Meta(version, deps, peer, opt, integrity) ==
    [version |-> version, dependencies |-> deps, dev_dependencies |-> {},
     peer_dependencies |-> peer, optional_dependencies |-> opt, integrity |-> integrity,
     has_scripts |-> FALSE]

Sha512Good == IntegrityOf("sha512", GoodBytes)

\* The registries of the model: a and b each depend on c (b possibly through
\* optionalDependencies), c has three versions, c@1.0.0 may depend on d and
\* c@2.0.0 may depend back on a.
RegistryOf(ca, cb, bopt, c1, c2, c15integrity) ==
    [n \in Names |->
        CASE n = "a" -> {Meta(<<1, 0, 0>>, {<<"c", ca>>}, {<<"d", Caret1>>}, {}, Sha512Good)}
          [] n = "b" -> {[Meta(<<1, 0, 0>>,
                               IF bopt THEN {} ELSE {<<"c", cb>>}, {},
                               IF bopt THEN {<<"c", cb>>} ELSE {},
                               IntegrityOf("sha256", GoodBytes))
                            EXCEPT !.dev_dependencies = {<<"@s/p", Star>>}]}
          [] n = "c" -> {Meta(<<1, 0, 0>>, c1, {}, {}, Sha512Good),
                         Meta(<<1, 5, 0>>, {}, {}, {}, c15integrity),
                         Meta(<<2, 0, 0>>, c2, {}, {}, IntegrityOf("sha1", GoodBytes))}
          [] OTHER -> {Meta(<<1, 0, 0>>, {}, {}, {}, IntegrityOf("", GoodBytes))}]

Registries ==
    {RegistryOf(ca, cb, bopt, c1, c2, Sha512Good) :
        ca \in {Caret1, Exact100, Exact200},
        cb \in {Caret100, Caret150, Exact200, Caret3},
        bopt \in BOOLEAN,
        c1 \in {{}, {<<"d", Caret1>>}},
        c2 \in {{}, {<<"a", Caret1>>}, {<<"a", Exact100>>}}}

PlainRegistry == RegistryOf(Caret1, Caret100, FALSE, {}, {}, Sha512Good)

RootAB == {<<"a", Caret1>>, <<"b", Caret1>>}
RootC == {<<"c", Caret1>>}
RootCE == {<<"c", Star>>, <<"e", Star>>}
RootScoped == {<<"@s/p", Star>>, <<"d", Caret1>>}

AllIds == {<<n, v>> : n \in Names, v \in {<<1, 0, 0>>, <<1, 5, 0>>, <<1, 6, 0>>, <<2, 0, 0>>}}

GoodArchives == [id \in AllIds |-> [status |-> 200, bytes |-> GoodBytes]]

\* Archives a publisher or a man in the middle may serve.
File(path) == [path |-> path, absolute |-> FALSE, nul |-> FALSE, kind |-> "file"]
Manifest == File(<<"package", "package.json">>)

ArchiveChoices ==
    {GoodBytes,
     <<Manifest, File(<<"package", "..", "..", "..", "..", "evil">>)>>,
     <<Manifest, File(<<"package", "x..y">>), File(<<"package", "late.js">>)>>,
     <<Manifest, [File(<<"etc", "passwd">>) EXCEPT !.absolute = TRUE]>>,
     <<Manifest, [File(<<"package", "f">>) EXCEPT !.nul = TRUE]>>,
     <<Manifest, [File(<<"package", "f">>) EXCEPT !.kind = "corrupt"]>>,
     <<[File(<<"package", "lib">>) EXCEPT !.kind = "dir"],
       [File(<<"package", "link">>) EXCEPT !.kind = "other"], Manifest>>}

TamperedBytes == <<Manifest, File(<<"package", "backdoor.js">>)>>

Versions(metadata) == {m.version : m \in metadata}
VersionMeta(metadata, version) == CHOOSE m \in metadata : m.version = version

(***************************************************************************)
(* resolver/graph.rs                                                       *)
(***************************************************************************)
NodeNames(nodes) == {n[1] : n \in nodes}

\* DependencyGraph::add_package: a name gets a node once; the label keeps
\* the version of the first call.
Graph_add_package(nodes, name, version) ==
    IF name \in NodeNames(nodes) THEN nodes ELSE nodes \cup {<<name, version>>}

\* DependencyGraph::add_dependency: an edge only between two existing nodes.
add_dependency(nodes, edges, from, to) ==
    IF from \in NodeNames(nodes) /\ to \in NodeNames(nodes)
    THEN edges \cup {<<from, to>>}
    ELSE edges

RECURSIVE add_dependencies(_, _, _, _)
add_dependencies(nodes, edges, from, tos) ==
    IF tos = {} THEN edges
    ELSE LET t == CHOOSE x \in tos : TRUE
         IN add_dependencies(nodes, add_dependency(nodes, edges, from, t), from, tos \ {t})

RECURSIVE Reach(_, _)
Reach(edges, frontier) ==
    LET next == frontier \cup {e[2] : e \in {x \in edges : x[1] \in frontier}}
    IN IF next = frontier THEN frontier ELSE Reach(edges, next)

\* DependencyGraph::has_cycle (petgraph is_cyclic_directed)
has_cycle(edges) ==
    \E e \in edges : e[1] \in Reach(edges, {e[2]})

(***************************************************************************)
(* core/lockfile.rs: the in-memory Lockfile is [version, integrity,        *)
(* packages]; packages is a sequence of LockedPackage.                     *)
(***************************************************************************)
LOCKFILE_VERSION == 1
NoIntegrity == <<>>

Lockfile_new == [version |-> LOCKFILE_VERSION, integrity |-> NoIntegrity, packages |-> <<>>]

\* Mutant of Lockfile_add_package: the entry is pushed, nothing is dropped.
Lockfile_add_package_push_only(lf, package) ==
    [lf EXCEPT !.packages = Append(lf.packages, package)]

\* Lockfile::add_package: drop the entry with the same (name, version), push.
Lockfile_add_package(lf, package) ==
    LET Keep(p) == ~(p.name = package.name /\ p.version = package.version)
    IN [lf EXCEPT !.packages = Append(SelectSeq(lf.packages, Keep), package)]

\* Lockfile::remove_package
Lockfile_remove_package(lf, name, version) ==
    LET Keep(p) == ~(p.name = name /\ p.version = version)
    IN [lf EXCEPT !.packages = SelectSeq(lf.packages, Keep)]

\* Lockfile::merge: an entry of the other lockfile is pushed unless its
\* (name, version) is already present.
RECURSIVE Lockfile_merge(_, _)
Lockfile_merge(lf, other) ==
    IF other.packages = <<>> THEN lf
    ELSE LET package == Head(other.packages)
             present == \E p \in Range(lf.packages) :
                           p.name = package.name /\ p.version = package.version
         IN Lockfile_merge(
               IF present THEN lf ELSE [lf EXCEPT !.packages = Append(@, package)],
               [other EXCEPT !.packages = Tail(@)])

LockSet(lf) == {<<p.name, p.version>> : p \in Range(lf.packages)}

(***************************************************************************)
(* cache/mod.rs                                                            *)
(***************************************************************************)
\* CacheManager::has_package: the extracted-tree directory exists.
has_package(dirs, name, version) == <<name, version>> \in dirs

(***************************************************************************)
(* resolver/mod.rs: Resolver::resolve                                      *)
(***************************************************************************)
NoResolved == [n \in Names \cup {"e"} |-> NoVersion]

\* Values of the state that a specification does not use.
NoOp == [op |-> "none", arg |-> <<>>, before |-> Lockfile_new]
NoProc == <<>>
NoPool == [mode |-> "none"]
NoMetadataFiles == [n \in SafeNames |-> [exists |-> FALSE, data |-> "", cached_at |-> 0]]
NoBlobs == {}
NoCall == [op |-> "none", input |-> <<>>, output |-> <<>>]

\* What the registry answers for a name: {} stands for HTTP 404.
RegistryAnswer(reg, name) == IF name \in DOMAIN reg THEN reg[name] ELSE {}

NoMetadata == [n \in SafeNames |-> {}]
NoFetches == [n \in Names \cup {"e"} |-> 0]

\* CacheManager::get_metadata: the entry under the safe name, {} for None
\* (no file, or a file past its TTL).
get_metadata(cache, name) == cache[safe_name(name)]

\* CacheManager::store_metadata
store_metadata(cache, name, data) == [cache EXCEPT ![safe_name(name)] = data]

\* Mutant of get_package_metadata: the cache is not consulted.
get_package_metadata_uncached(reg, cache, name) ==
    IF RegistryAnswer(reg, name) = {}
    THEN [metadata |-> {}, cache |-> cache, requests |-> 1]
    ELSE [metadata |-> RegistryAnswer(reg, name),
          cache |-> store_metadata(cache, name, RegistryAnswer(reg, name)),
          requests |-> 1]

\* RegistryClient::get_package_metadata: [metadata, cache, requests]. A
\* cached entry that has not expired is returned without a request;
\* otherwise the registry is asked and a successful answer is cached.
\* Metadata {} stands for Err(PackageNotFound).
get_package_metadata(reg, cache, name) ==
    IF get_metadata(cache, name) # {}
    THEN [metadata |-> get_metadata(cache, name), cache |-> cache, requests |-> 0]
    ELSE IF RegistryAnswer(reg, name) = {}
    THEN [metadata |-> {}, cache |-> cache, requests |-> 1]
    ELSE [metadata |-> RegistryAnswer(reg, name),
          cache |-> store_metadata(cache, name, RegistryAnswer(reg, name)),
          requests |-> 1]

QueueItem(dep, depth) == [name |-> dep[1], constraint |-> dep[2], depth |-> depth]

RECURSIVE PushAll(_, _, _)
PushAll(q, deps, depth) ==
    IF deps = <<>> THEN q
    ELSE PushAll(Append(q, QueueItem(Head(deps), depth)), Tail(deps), depth)

MAX_DEPTH == 100

\* Mutant of keeps_existing: the first version chosen for a name always stays.
keeps_existing_first_wins(existing, matching_version) ==
    /\ existing # NoVersion
    /\ existing # matching_version

\* The conflict check of resolve: the site is skipped when another version
\* is already chosen for the name and that version is not lower.
keeps_existing(existing, matching_version) ==
    /\ existing # NoVersion
    /\ existing # matching_version
    /\ VLe(matching_version, existing)

\* Mutant of already_visited: no key is ever found in the visited set.
already_visited_never(vis, cache_key) == FALSE

\* visited.contains(&cache_key)
already_visited(vis, cache_key) == cache_key \in vis

\* resolve, up to the loop: fresh graph and lockfile, the root dependencies
\* enqueued at depth 0 in the iteration order of the HashMap.
resolve_begin ==
    /\ pc = "resolve"
    /\ \E order \in Perms(root_deps) :
          queue' = PushAll(<<>>, order, 0)
    /\ visited' = {}
    /\ resolved_versions' = [n \in DOMAIN resolved_versions |-> NoVersion]
    /\ selected' = {}
    /\ meta_fetched' = [n \in DOMAIN meta_fetched |-> 0]
    /\ graph_nodes' = {}
    /\ graph_edges' = {}
    /\ lockfile' = Lockfile_new
    /\ to_install' = <<>>
    /\ from_cache' = <<>>
    /\ pc' = "resolving"
    /\ UNCHANGED <<registry, archives, metadata_cache, root_deps, run, published, existing_lockfile, error,
                   args, idx, counts, fetched, tarballs, fs_files, fs_dirs, completed,
                   node_modules, lock_file>>
    /\ UNCHANGED <<lf_op, proc, pool, now, metadata_files, content_store, security, policy_log, call>>

\* The LockedPackage resolve builds from a ResolvedPackage: the dependency
\* lists follow the iteration order of the HashMaps (deps, peers, opts are
\* the maps in that order).
locked_package(resolved, deps, peers, opts, has_scripts) ==
    [name |-> resolved.name, version |-> resolved.version,
     resolved |-> resolved.tarball_url, integrity |-> resolved.integrity,
     dependencies |-> deps,
     peer_dependencies |-> [i \in DOMAIN peers |-> peers[i][1]],
     optional_dependencies |-> [i \in DOMAIN opts |-> opts[i][1]],
     has_scripts |-> has_scripts]

\* Mutant of queued_dependencies: peer dependencies are queued as well.
queued_dependencies_with_peers(deps, opts, peers, devs) == deps \o opts \o peers

\* The dependencies resolve pushes for a package, in the order of the pushes:
\* the regular ones, then the optional ones.
queued_dependencies(deps, opts, peers, devs) == deps \o opts

\* The part of one loop iteration after the conflict check: record the
\* version, add node and edges, partition by cache presence, add the lockfile
\* entry and queue the dependencies.
resolve_emit(item, rest, metadata, matching_version) ==
    LET name == item.name
        version_meta == VersionMeta(metadata, matching_version)
        nodes1 == Graph_add_package(graph_nodes, name, matching_version)
        resolved == [name |-> name, version |-> matching_version,
                     tarball_url |-> Url(name, matching_version),
                     integrity |-> version_meta.integrity]
    IN \E deps \in Perms(version_meta.dependencies),
          opts \in Perms(version_meta.optional_dependencies),
          peers \in Perms(version_meta.peer_dependencies),
          devs \in Perms(version_meta.dev_dependencies) :
          /\ resolved_versions' = [resolved_versions EXCEPT ![name] = matching_version]
          /\ graph_nodes' = nodes1
          /\ graph_edges' = add_dependencies(nodes1, graph_edges, name,
                                             {d[1] : d \in version_meta.dependencies})
          /\ IF has_package(fs_dirs, name, matching_version)
             THEN /\ from_cache' = Append(from_cache, resolved)
                  /\ to_install' = to_install
             ELSE /\ to_install' = Append(to_install, resolved)
                  /\ from_cache' = from_cache
          /\ lockfile' = Lockfile_add_package(lockfile,
                locked_package(resolved, deps, peers, opts, version_meta.has_scripts))
          /\ queue' = IF item.depth < MAX_DEPTH
                      THEN PushAll(rest, queued_dependencies(deps, opts, peers, devs),
                                   item.depth + 1)
                      ELSE rest
          /\ pc' = "resolving"
          /\ error' = error

\* One iteration of `while let Some(..) = queue.pop()`.
resolve_iteration ==
    /\ pc = "resolving"
    /\ queue # <<>>
    /\ LET item == queue[Len(queue)]
           rest == SubSeq(queue, 1, Len(queue) - 1)
           cache_key == <<item.name, item.constraint>>
           got == get_package_metadata(registry, metadata_cache, item.name)
           metadata == got.metadata
           constraint == parse(item.constraint)
           matching_version == find_matching_version(Versions(metadata), constraint)
       IN IF already_visited(visited, cache_key)
          THEN /\ queue' = rest
               /\ UNCHANGED <<visited, resolved_versions, selected, graph_nodes, graph_edges,
                              lockfile, to_install, from_cache, pc, error, metadata_cache,
                              meta_fetched>>
          ELSE /\ visited' = visited \cup {cache_key}
               /\ metadata_cache' = got.cache
               /\ meta_fetched' = [meta_fetched EXCEPT ![item.name] = @ + got.requests]
               /\ IF metadata = {} \/ constraint.kind = "Err" \/ matching_version = NoVersion
                  THEN /\ pc' = "failed"
                       /\ error' = IF metadata = {} THEN "PackageNotFound"
                                   ELSE "InvalidVersionConstraint"
                       /\ UNCHANGED <<queue, resolved_versions, selected, graph_nodes,
                                      graph_edges, lockfile, to_install, from_cache>>
                  ELSE /\ selected' = selected \cup
                              {[name |-> item.name, constraint |-> item.constraint,
                                version |-> matching_version]}
                       /\ IF keeps_existing(resolved_versions[item.name], matching_version)
                          THEN /\ queue' = rest
                               /\ UNCHANGED <<resolved_versions, graph_nodes, graph_edges,
                                              lockfile, to_install, from_cache, pc, error>>
                          ELSE resolve_emit(item, rest, metadata, matching_version)
    /\ UNCHANGED <<registry, archives, root_deps, run, published, existing_lockfile,
                   args, idx, counts, fetched, tarballs, fs_files, fs_dirs, completed,
                   node_modules, lock_file>>
    /\ UNCHANGED <<lf_op, proc, pool, now, metadata_files, content_store, security, policy_log, call>>

\* After the worklist drains: the cycle check, then Ok(Resolution).
resolve_end ==
    /\ pc = "resolving"
    /\ queue = <<>>
    /\ IF has_cycle(graph_edges)
       THEN pc' = "failed" /\ error' = "CircularDependency"
       ELSE pc' = "resolved" /\ error' = error
    /\ UNCHANGED <<registry, archives, metadata_cache, root_deps, run, published, existing_lockfile,
                   queue, visited, resolved_versions, selected, graph_nodes, graph_edges,
                   lockfile, to_install, from_cache,
                   args, idx, counts, fetched, tarballs, fs_files, fs_dirs, completed,
                   node_modules, lock_file>>
    /\ UNCHANGED <<lf_op, meta_fetched, proc, pool, now, metadata_files, content_store, security, policy_log, call>>

(***************************************************************************)
(* installer/downloader.rs                                                 *)
(***************************************************************************)
\* verify_integrity_static: only the sha512- and sha256- prefixes are
\* verified; any other prefix is accepted with a warning.
verify_integrity_static(data, integrity) ==
    IF integrity.algo \in {"sha512", "sha256"}
    THEN Digest(integrity.algo, data) = integrity.digest
    ELSE TRUE

\* CacheManager::store_tarball
store_tarball(tars, name, version, data) ==
    [tars EXCEPT ![<<name, version>>] = [present |-> TRUE, bytes |-> data]]

\* Downloader::download: [err, tarballs, requests, bytes].
download(package, prefer_offline, dirs, tars, served) ==
    LET response == served[package.tarball_url]
    IN IF prefer_offline /\ has_package(dirs, package.name, package.version)
       THEN [err |-> "", tarballs |-> tars, requests |-> <<>>, bytes |-> 0]
       ELSE IF response.status # 200
       THEN [err |-> "Network", tarballs |-> tars,
             requests |-> <<package.tarball_url>>, bytes |-> 0]
       ELSE IF package.integrity.algo # ""
               /\ ~verify_integrity_static(response.bytes, package.integrity)
       THEN [err |-> "IntegrityCheckFailed", tarballs |-> tars,
             requests |-> <<package.tarball_url>>, bytes |-> 0]
       ELSE [err |-> "",
             tarballs |-> store_tarball(tars, package.name, package.version, response.bytes),
             requests |-> <<package.tarball_url>>, bytes |-> 1]

(***************************************************************************)
(* installer/extractor.rs.  A path is a sequence of components; an archive *)
(* entry is [path, absolute, nul, kind].                                   *)
(***************************************************************************)
\* Components whose text contains "..".
DotDotComponents == {"..", "x..y"}

\* CacheManager::get_package_dir, relative to the file-system root.
get_package_dir(name, version) == <<"cache", "content", safe_name(name), version>>

\* Mutant of check_path_traversal: the test for ".." is lost.
check_path_traversal_without_dotdot(entry) ==
    IF entry.absolute THEN "PathTraversal"
    ELSE IF entry.nul THEN "PathTraversal"
    ELSE ""

\* Extractor::check_path_traversal: "" when the path is accepted.
check_path_traversal(entry) ==
    IF \E i \in DOMAIN entry.path : entry.path[i] \in DotDotComponents THEN "PathTraversal"
    ELSE IF entry.absolute THEN "PathTraversal"
    ELSE IF entry.nul THEN "PathTraversal"
    ELSE ""

\* strip_prefix("package/")
strip_package_prefix(path) ==
    IF path # <<>> /\ Head(path) = "package" THEN Tail(path) ELSE path

\* Path::join: an absolute right-hand side replaces the base.
PathJoin(base, entry, relative) == IF entry.absolute THEN relative ELSE base \o relative

\* The file the operating system reaches through a path: ".." steps up.
RECURSIVE Normalize(_, _)
Normalize(path, acc) ==
    IF path = <<>> THEN acc
    ELSE IF Head(path) = ".."
    THEN Normalize(Tail(path), IF acc = <<>> THEN acc ELSE SubSeq(acc, 1, Len(acc) - 1))
    ELSE Normalize(Tail(path), Append(acc, Head(path)))

\* The loop over archive.entries(): [err, files] after the entries are
\* handled in order, stopping at the first error.
RECURSIVE extract_entries(_, _, _, _)
extract_entries(id, extract_dir, entries, files) ==
    IF entries = <<>> THEN [err |-> "", files |-> files]
    ELSE LET entry == Head(entries)
             target_path == PathJoin(extract_dir, entry, strip_package_prefix(entry.path))
         IN IF entry.kind = "corrupt" THEN [err |-> "Io", files |-> files]
            ELSE IF check_path_traversal(entry) # ""
            THEN [err |-> check_path_traversal(entry), files |-> files]
            ELSE extract_entries(id, extract_dir, Tail(entries),
                    IF entry.kind = "file"
                    THEN files \cup {<<id, Normalize(target_path, <<>>)>>}
                    ELSE files)

NoTarball == [present |-> FALSE, bytes |-> <<>>]

\* Extractor::extract: [err, dirs, files, ran], ran telling that the entry
\* loop ran to its end.
extract(package, dirs, files, tars) ==
    LET id == <<package.name, package.version>>
        extract_dir == get_package_dir(package.name, package.version)
        out == extract_entries(id, extract_dir, tars[id].bytes, files)
    IN IF ~tars[id].present
       THEN [err |-> "Cache", dirs |-> dirs, files |-> files, ran |-> FALSE]
       ELSE IF id \in dirs
       THEN [err |-> "", dirs |-> dirs, files |-> files, ran |-> FALSE]
       ELSE [err |-> out.err, dirs |-> dirs \cup {id}, files |-> out.files,
             ran |-> out.err = ""]

(***************************************************************************)
(* security/mod.rs                                                         *)
(***************************************************************************)
\* SecurityConfig::default (core/config.rs).
SecurityConfig_default ==
    [allow_scripts |-> FALSE, trusted_scopes |-> {}, trusted_packages |-> {},
     dependency_confusion_protection |-> TRUE]

\* name.starts_with('@') and name.split('/').next(), over the names of the model.
starts_with_at(name) == name = "@s/p"
scope_of(name) == IF name = "@s/p" THEN "@s" ELSE name

\* SecurityManager::is_trusted (PermissionManager::is_trusted is the same code).
is_trusted(config, name) ==
    \/ name \in config.trusted_packages
    \/ starts_with_at(name) /\ scope_of(name) \in config.trusted_scopes

\* check_dependency_confusion: every path warns at most and returns Ok(()).
check_dependency_confusion(name) == TRUE

\* SecurityManager::verify_package_allowed: TRUE for Ok(()), FALSE for Err.
verify_package_allowed(config, name) ==
    IF is_trusted(config, name) THEN TRUE
    ELSE IF config.dependency_confusion_protection THEN check_dependency_confusion(name)
    ELSE TRUE

\* SecurityManager::should_run_script
should_run_script(config, package) ==
    IF ~config.allow_scripts THEN FALSE
    ELSE IF is_trusted(config, package) THEN TRUE
    ELSE FALSE

(***************************************************************************)
(* security/permissions.rs                                                 *)
(***************************************************************************)
Permissions == {"Filesystem", "Network", "Scripts", "Environment", "ChildProcess"}

\* PackagePermissions::default(): every Option is None.
PackagePermissions_default == [p \in Permissions |-> "None"]

\* SecurityManager::new with PermissionManager::new: two empty maps.
SecurityManager_new(config) ==
    [config |-> config,
     package_permissions |-> [n \in {} |-> PackagePermissions_default],
     cached_decisions |-> [k \in {} |-> "Allow"]]

NoSecurity == SecurityManager_new(SecurityConfig_default)

default_permission(config, permission) ==
    CASE permission = "Filesystem" -> "Prompt"
      [] permission = "Network" -> "Prompt"
      [] permission = "Scripts" -> IF config.allow_scripts THEN "Allow" ELSE "Deny"
      [] permission = "Environment" -> "Prompt"
      [] permission = "ChildProcess" -> "Deny"

\* PermissionManager::check
check(pm, package, permission) ==
    IF <<package, permission>> \in DOMAIN pm.cached_decisions
    THEN pm.cached_decisions[<<package, permission>>]
    ELSE IF is_trusted(pm.config, package) THEN "Allow"
    ELSE IF /\ package \in DOMAIN pm.package_permissions
            /\ pm.package_permissions[package][permission] # "None"
    THEN pm.package_permissions[package][permission]
    ELSE default_permission(pm.config, permission)

\* grant, deny: cache.insert((package, permission), decision)
cache_insert(pm, package, permission, decision) ==
    [pm EXCEPT !.cached_decisions =
        [k \in DOMAIN @ \cup {<<package, permission>>} |->
            IF k = <<package, permission>> THEN decision ELSE @[k]]]

grant(pm, package, permission) == cache_insert(pm, package, permission, "Allow")
deny(pm, package, permission) == cache_insert(pm, package, permission, "Deny")

set_package_permissions(pm, package, permissions) ==
    [pm EXCEPT !.package_permissions =
        [n \in DOMAIN @ \cup {package} |-> IF n = package THEN permissions ELSE @[n]]]

clear_cache(pm) == [pm EXCEPT !.cached_decisions = [k \in {} |-> "Allow"]]

(***************************************************************************)
(* security/sandbox.rs                                                     *)
(***************************************************************************)
\* ScriptSandbox::execute up to Command::output: "PermissionDenied", or
\* "spawned" when the shell is started; permissions is the Option field.
execute(permissions, package) ==
    IF permissions.some /\ check(permissions.data, package, "Scripts") = "Deny"
    THEN "PermissionDenied"
    ELSE "spawned"

\* Mutant of policy_gate: download runs before the policy check.
policy_gate_after_download(checks, requests) == requests \o checks

\* The order of one loop turn of Installer::install that does not skip: the
\* policy check, then the requests of download.
policy_gate(checks, requests) == checks \o requests

(***************************************************************************)
(* installer/mod.rs: Installer::install                                    *)
(***************************************************************************)
NoCounts == [installed_count |-> 0, cached_count |-> 0, bytes_downloaded |-> 0]

install_begin ==
    /\ pc = "install"
    /\ \E force \in BOOLEAN, prefer_offline \in BOOLEAN :
          args' = [args EXCEPT !.force = force, !.prefer_offline = prefer_offline]
    /\ idx' = 1
    /\ counts' = NoCounts
    /\ fetched' = <<>>
    /\ policy_log' = <<>>
    /\ pc' = "installing"
    /\ UNCHANGED <<registry, archives, metadata_cache, root_deps, run, published, existing_lockfile,
                   queue, visited, resolved_versions, selected, graph_nodes, graph_edges,
                   lockfile, to_install, from_cache, error, tarballs, fs_files, fs_dirs,
                   completed, node_modules, lock_file>>
    /\ UNCHANGED <<lf_op, meta_fetched, proc, pool, now, metadata_files, content_store, security, call>>

\* One iteration of `for pkg in &resolution.to_install`.
install_package ==
    /\ pc = "installing"
    /\ idx <= Len(to_install)
    /\ LET pkg == to_install[idx]
           id == <<pkg.name, pkg.version>>
           dl == download(pkg, args.prefer_offline, fs_dirs, tarballs, archives)
           ex == extract(pkg, fs_dirs, fs_files, dl.tarballs)
           allowed == verify_package_allowed(security.config, pkg.name)
           checked == <<[op |-> "verify_package_allowed", name |-> pkg.name, ok |-> allowed]>>
           requested == [i \in DOMAIN dl.requests |->
                            [op |-> "request", name |-> pkg.name, ok |-> TRUE]]
       IN IF ~args.force /\ has_package(fs_dirs, pkg.name, pkg.version)
          THEN /\ counts' = [counts EXCEPT !.cached_count = @ + 1]
               /\ idx' = idx + 1
               /\ UNCHANGED <<pc, error, fetched, tarballs, fs_files, fs_dirs, completed,
                               policy_log>>
          ELSE IF ~allowed
          THEN /\ pc' = "failed"
               /\ error' = "PermissionDenied"
               /\ policy_log' = policy_log \o checked
               /\ UNCHANGED <<idx, counts, fetched, tarballs, fs_files, fs_dirs, completed>>
          ELSE IF dl.err # ""
          THEN /\ pc' = "failed"
               /\ error' = dl.err
               /\ fetched' = fetched \o dl.requests
               /\ policy_log' = policy_log \o policy_gate(checked, requested)
               /\ tarballs' = dl.tarballs
               /\ UNCHANGED <<idx, counts, fs_files, fs_dirs, completed>>
          ELSE /\ fetched' = fetched \o dl.requests
               /\ policy_log' = policy_log \o policy_gate(checked, requested)
               /\ tarballs' = dl.tarballs
               /\ fs_dirs' = ex.dirs
               /\ fs_files' = ex.files
               /\ completed' = IF ex.ran THEN completed \cup {id} ELSE completed
               /\ IF ex.err # ""
                  THEN /\ pc' = "failed"
                       /\ error' = ex.err
                       /\ counts' = [counts EXCEPT !.bytes_downloaded = @ + dl.bytes]
                       /\ idx' = idx
                  ELSE /\ counts' = [counts EXCEPT !.bytes_downloaded = @ + dl.bytes,
                                                   !.installed_count = @ + 1]
                       /\ idx' = idx + 1
                       /\ UNCHANGED <<pc, error>>
    /\ UNCHANGED <<registry, archives, metadata_cache, root_deps, run, published, existing_lockfile,
                   queue, visited, resolved_versions, selected, graph_nodes, graph_edges,
                   lockfile, to_install, from_cache, args, node_modules, lock_file>>
    /\ UNCHANGED <<lf_op, meta_fetched, proc, pool, now, metadata_files, content_store, security, call>>

install_end ==
    /\ pc = "installing"
    /\ idx > Len(to_install)
    /\ counts' = [counts EXCEPT !.cached_count = @ + Len(from_cache)]
    /\ pc' = "link"
    /\ UNCHANGED <<registry, archives, metadata_cache, root_deps, run, published, existing_lockfile,
                   queue, visited, resolved_versions, selected, graph_nodes, graph_edges,
                   lockfile, to_install, from_cache, error, args, idx, fetched, tarballs,
                   fs_files, fs_dirs, completed, node_modules, lock_file>>
    /\ UNCHANGED <<lf_op, meta_fetched, proc, pool, now, metadata_files, content_store, security, policy_log, call>>

(***************************************************************************)
(* installer/linker.rs                                                     *)
(***************************************************************************)
NoLink == <<>>

\* Linker::link_packages: a package whose cache directory is missing is
\* skipped; an existing target is replaced.
RECURSIVE link_packages(_, _, _)
link_packages(packages, dirs, modules) ==
    IF packages = <<>> THEN modules
    ELSE LET package == Head(packages)
         IN link_packages(Tail(packages), dirs,
               IF has_package(dirs, package.name, package.version)
               THEN [modules EXCEPT ![package.name] =
                        get_package_dir(package.name, package.version)]
               ELSE modules)

(***************************************************************************)
(* core/lockfile.rs: save, load, compute_integrity, diff                   *)
(***************************************************************************)
NameOrder == <<"@s/p", "a", "b", "c", "d", "e">>
NameRank(n) == CHOOSE i \in DOMAIN NameOrder : NameOrder[i] = n

\* a.name.cmp(&b.name).then_with(|| a.version.cmp(&b.version)): the version
\* strings of the model have one-digit numbers, for which the string order
\* is the order of the number triples.
PackageLt(a, b) ==
    \/ NameRank(a.name) < NameRank(b.name)
    \/ a.name = b.name /\ VLt(a.version, b.version)

RECURSIVE InsertSorted(_, _)
InsertSorted(p, sorted) ==
    IF sorted = <<>> THEN <<p>>
    ELSE IF PackageLt(p, Head(sorted)) THEN <<p>> \o sorted
    ELSE <<Head(sorted)>> \o InsertSorted(p, Tail(sorted))

\* self.packages.sort_by(..): a stable sort.
RECURSIVE sort_packages(_)
sort_packages(packages) ==
    IF packages = <<>> THEN <<>>
    ELSE InsertSorted(packages[Len(packages)],
                      sort_packages(SubSeq(packages, 1, Len(packages) - 1)))

\* Mutant of serialize_package: has_scripts is never written.
serialize_package_without_scripts(p) ==
    LET keys == {"name", "version", "resolved", "integrity"}
                \cup (IF p.dependencies # <<>> THEN {"dependencies"} ELSE {})
                \cup (IF p.peer_dependencies # <<>> THEN {"peer_dependencies"} ELSE {})
                \cup (IF p.optional_dependencies # <<>> THEN {"optional_dependencies"} ELSE {})
    IN [k \in keys |-> p[k]]

\* Serialization of one LockedPackage: empty lists and has_scripts = false
\* are omitted (skip_serializing_if).
serialize_package(p) ==
    LET keys == {"name", "version", "resolved", "integrity"}
                \cup (IF p.dependencies # <<>> THEN {"dependencies"} ELSE {})
                \cup (IF p.peer_dependencies # <<>> THEN {"peer_dependencies"} ELSE {})
                \cup (IF p.optional_dependencies # <<>> THEN {"optional_dependencies"} ELSE {})
                \cup (IF p.has_scripts THEN {"has_scripts"} ELSE {})
    IN [k \in keys |-> p[k]]

\* Deserialization of one LockedPackage: omitted keys take their default.
deserialize_package(e) ==
    [name |-> e["name"], version |-> e["version"], resolved |-> e["resolved"],
     integrity |-> e["integrity"],
     dependencies |-> IF "dependencies" \in DOMAIN e THEN e["dependencies"] ELSE <<>>,
     peer_dependencies |->
        IF "peer_dependencies" \in DOMAIN e THEN e["peer_dependencies"] ELSE <<>>,
     optional_dependencies |->
        IF "optional_dependencies" \in DOMAIN e THEN e["optional_dependencies"] ELSE <<>>,
     has_scripts |-> IF "has_scripts" \in DOMAIN e THEN e["has_scripts"] ELSE FALSE]

\* toml::to_string(&Lockfile): the integrity key is written only when set.
to_string(lf) ==
    LET keys == {"version", "packages"}
                \cup (IF lf.integrity # NoIntegrity THEN {"integrity"} ELSE {})
    IN [k \in keys |->
          CASE k = "version" -> lf.version
            [] k = "packages" -> [i \in DOMAIN lf.packages |-> serialize_package(lf.packages[i])]
            [] OTHER -> lf.integrity]

\* toml::from_str::<Lockfile>
from_str(content) ==
    [version |-> content["version"],
     integrity |-> IF "integrity" \in DOMAIN content THEN content["integrity"] ELSE NoIntegrity,
     packages |-> [i \in DOMAIN content["packages"] |->
                      deserialize_package(content["packages"][i])]]

\* Lockfile::compute_integrity: SHA-256 of the serialization without the
\* integrity field, modelled collision-free by the serialization itself.
compute_integrity(lf) == <<"sha256", to_string([lf EXCEPT !.integrity = NoIntegrity])>>

NoFile == [exists |-> FALSE, content |-> <<>>]

\* Lockfile::save: [lockfile, file].
save(lf) ==
    LET sorted == [lf EXCEPT !.packages = sort_packages(lf.packages), !.integrity = NoIntegrity]
        sealed == [sorted EXCEPT !.integrity = compute_integrity(sorted)]
    IN [lockfile |-> sealed, file |-> [exists |-> TRUE, content |-> to_string(sealed)]]

\* The integrity test of load: a stored integrity must equal the recomputed one.
integrity_accepted(lf) ==
    lf.integrity # NoIntegrity => compute_integrity(lf) = lf.integrity

\* Lockfile::load: status "none" is Ok(None), "some" is Ok(Some(lockfile)).
load(file) ==
    IF ~file.exists THEN [status |-> "none", lockfile |-> Lockfile_new]
    ELSE LET lf == from_str(file.content)
         IN IF integrity_accepted(lf)
            THEN [status |-> "some", lockfile |-> lf]
            ELSE [status |-> "InvalidLockfile", lockfile |-> Lockfile_new]

NotLoaded == [status |-> "unread", lockfile |-> Lockfile_new]

\* Lockfile::find_package: the index of the first entry with the name and
\* version, 0 for None.
find_package(lf, name, version) ==
    LET Hit(i) == lf.packages[i].name = name /\ lf.packages[i].version = version
    IN IF \E i \in DOMAIN lf.packages : Hit(i)
       THEN CHOOSE i \in DOMAIN lf.packages : Hit(i) /\ \A j \in 1..(i - 1) : ~Hit(j)
       ELSE 0

\* Mutant of diff: the existing entry is looked up by name alone.
diff_find_by_name(self, other) ==
    LET mine == Range(self.packages)
        theirs == Range(other.packages)
        First(q) == CHOOSE i \in DOMAIN self.packages :
                        /\ self.packages[i].name = q.name
                        /\ \A j \in 1..(i - 1) : self.packages[j].name # q.name
    IN [added |-> {q \in theirs : ~\E p \in mine : p.name = q.name},
        changed |-> {q \in theirs :
                        (\E p \in mine : p.name = q.name) /\ self.packages[First(q)] # q},
        removed |-> {p \in mine : ~\E q \in theirs : q.name = p.name}]

\* Lockfile::diff: [added, removed, changed] as sets of entries.
diff(self, other) ==
    LET mine == Range(self.packages)
        theirs == Range(other.packages)
        Found(q) == find_package(self, q.name, q.version)
    IN [added |-> {q \in theirs : Found(q) = 0 /\ ~\E p \in mine : p.name = q.name},
        changed |-> {q \in theirs :
                        \/ Found(q) = 0 /\ \E p \in mine : p.name = q.name
                        \/ Found(q) # 0 /\ self.packages[Found(q)] # q},
        removed |-> {p \in mine : ~\E q \in theirs : q.name = p.name}]

diff_is_empty(d) == d.added = {} /\ d.removed = {} /\ d.changed = {}

(***************************************************************************)
(* cli/commands/install.rs: execute                                        *)
(***************************************************************************)
NoArgs == [force |-> FALSE, prefer_offline |-> FALSE, frozen_lockfile |-> FALSE]

\* engine.lockfile()?
exec_load ==
    /\ pc = "start"
    /\ existing_lockfile' = load(lock_file)
    /\ IF load(lock_file).status = "InvalidLockfile"
       THEN pc' = "failed" /\ error' = "InvalidLockfile"
       ELSE pc' = "resolve" /\ error' = ""
    /\ UNCHANGED <<registry, archives, metadata_cache, root_deps, run, published,
                   queue, visited, resolved_versions, selected, graph_nodes, graph_edges,
                   lockfile, to_install, from_cache, args, idx, counts, fetched, tarballs,
                   fs_files, fs_dirs, completed, node_modules, lock_file>>
    /\ UNCHANGED <<lf_op, meta_fetched, proc, pool, now, metadata_files, content_store, security, policy_log, call>>

\* The --frozen-lockfile check after resolve.
exec_frozen_check ==
    /\ pc = "resolved"
    /\ \E frozen_lockfile \in BOOLEAN :
          /\ args' = [args EXCEPT !.frozen_lockfile = frozen_lockfile]
          /\ IF frozen_lockfile
                /\ (\/ existing_lockfile.status # "some"
                    \/ ~diff_is_empty(diff(existing_lockfile.lockfile, lockfile)))
             THEN pc' = "failed" /\ error' = "Other"
             ELSE pc' = "install" /\ error' = error
    /\ UNCHANGED <<registry, archives, metadata_cache, root_deps, run, published, existing_lockfile,
                   queue, visited, resolved_versions, selected, graph_nodes, graph_edges,
                   lockfile, to_install, from_cache, idx, counts, fetched, tarballs,
                   fs_files, fs_dirs, completed, node_modules, lock_file>>
    /\ UNCHANGED <<lf_op, meta_fetched, proc, pool, now, metadata_files, content_store, security, policy_log, call>>

\* installer.link(&resolution)
exec_link ==
    /\ pc = "link"
    /\ node_modules' = link_packages(to_install \o from_cache, fs_dirs, node_modules)
    /\ pc' = "save"
    /\ UNCHANGED <<registry, archives, metadata_cache, root_deps, run, published, existing_lockfile,
                   queue, visited, resolved_versions, selected, graph_nodes, graph_edges,
                   lockfile, to_install, from_cache, error, args, idx, counts, fetched,
                   tarballs, fs_files, fs_dirs, completed, lock_file>>
    /\ UNCHANGED <<lf_op, meta_fetched, proc, pool, now, metadata_files, content_store, security, policy_log, call>>

\* lockfile.save(&project_dir)
exec_save ==
    /\ pc = "save"
    /\ lockfile' = save(lockfile).lockfile
    /\ lock_file' = save(lockfile).file
    /\ pc' = "done"
    /\ UNCHANGED <<registry, archives, metadata_cache, root_deps, run, published, existing_lockfile,
                   queue, visited, resolved_versions, selected, graph_nodes, graph_edges,
                   to_install, from_cache, error, args, idx, counts, fetched,
                   tarballs, fs_files, fs_dirs, completed, node_modules>>
    /\ UNCHANGED <<lf_op, meta_fetched, proc, pool, now, metadata_files, content_store, security, policy_log, call>>

\* The next `velocity install` in the same project: the process state is
\* gone, the registry, the cache and the project directory stay.
exec_again ==
    /\ pc \in {"done", "failed"}
    /\ run < MaxRuns
    /\ run' = run + 1
    /\ pc' = "start"
    /\ error' = ""
    /\ existing_lockfile' = NotLoaded
    /\ queue' = <<>>
    /\ visited' = {}
    /\ resolved_versions' = NoResolved
    /\ selected' = {}
    /\ graph_nodes' = {}
    /\ graph_edges' = {}
    /\ lockfile' = Lockfile_new
    /\ to_install' = <<>>
    /\ from_cache' = <<>>
    /\ args' = NoArgs
    /\ idx' = 0
    /\ counts' = NoCounts
    /\ fetched' = <<>>
    /\ UNCHANGED <<registry, archives, metadata_cache, root_deps, published, tarballs, fs_files, fs_dirs,
                   completed, node_modules, lock_file>>
    /\ UNCHANGED <<lf_op, meta_fetched, proc, pool, now, metadata_files, content_store, security, policy_log, call>>

\* Time passes between two runs: the cached metadata outlive their TTL.
metadata_expire ==
    /\ pc = "start"
    /\ run > 1
    /\ metadata_cache # NoMetadata
    /\ metadata_cache' = NoMetadata
    /\ UNCHANGED <<registry, archives, root_deps, pc, run, published, existing_lockfile,
                   queue, visited, resolved_versions, selected, graph_nodes, graph_edges,
                   lockfile, to_install, from_cache, error, args, idx, counts, fetched,
                   tarballs, fs_files, fs_dirs, completed, node_modules, lock_file>>
    /\ UNCHANGED <<lf_op, meta_fetched, proc, pool, now, metadata_files, content_store, security, policy_log, call>>

\* The registry publishes a new version between two runs.
Publishable ==
    {<<"c", Meta(<<1, 6, 0>>, {}, {}, {}, Sha512Good)>>,
     <<"d", Meta(<<1, 5, 0>>, {}, {}, {}, Sha512Good)>>}

publish ==
    /\ pc = "start"
    /\ run > 1
    /\ published < MaxPublish
    /\ \E p \in Publishable :
          /\ p[2].version \notin Versions(registry[p[1]])
          /\ registry' = [registry EXCEPT ![p[1]] = @ \cup {p[2]}]
    /\ published' = published + 1
    /\ UNCHANGED <<archives, metadata_cache, root_deps, pc, run, existing_lockfile,
                   queue, visited, resolved_versions, selected, graph_nodes, graph_edges,
                   lockfile, to_install, from_cache, error, args, idx, counts, fetched,
                   tarballs, fs_files, fs_dirs, completed, node_modules, lock_file>>
    /\ UNCHANGED <<lf_op, meta_fetched, proc, pool, now, metadata_files, content_store, security, policy_log, call>>

(***************************************************************************)
(* Specification: install runs over the registries of the model, every     *)
(* archive served as published.                                            *)
(***************************************************************************)
InitProcess ==
    /\ pc = "start"
    /\ run = 1
    /\ published = 0
    /\ metadata_cache = NoMetadata
    /\ existing_lockfile = NotLoaded
    /\ queue = <<>>
    /\ visited = {}
    /\ resolved_versions = NoResolved
    /\ selected = {}
    /\ graph_nodes = {}
    /\ graph_edges = {}
    /\ lockfile = Lockfile_new
    /\ to_install = <<>>
    /\ from_cache = <<>>
    /\ error = ""
    /\ args = NoArgs
    /\ idx = 0
    /\ counts = NoCounts
    /\ fetched = <<>>
    /\ tarballs = [id \in AllIds |-> NoTarball]
    /\ fs_files = {}
    /\ fs_dirs = {}
    /\ completed = {}
    /\ node_modules = [n \in Names |-> NoLink]
    /\ lock_file = NoFile
    /\ lf_op = NoOp
    /\ meta_fetched = NoFetches
    /\ proc = NoProc
    /\ pool = NoPool
    /\ now = 0
    /\ metadata_files = NoMetadataFiles
    /\ content_store = NoBlobs
    /\ security = NoSecurity
    /\ policy_log = <<>>
    /\ call = NoCall

Init ==
    /\ \/ registry \in Registries /\ root_deps = RootAB
       \/ registry = PlainRegistry /\ root_deps \in {RootC, RootCE, RootScoped}
    /\ archives = GoodArchives
    /\ InitProcess

Next ==
    \/ exec_load
    \/ resolve_begin
    \/ resolve_iteration
    \/ resolve_end
    \/ exec_frozen_check
    \/ install_begin
    \/ install_package
    \/ install_end
    \/ exec_link
    \/ exec_save
    \/ exec_again
    \/ metadata_expire
    \/ publish

Spec == Init /\ [][Next]_vars

(***************************************************************************)
(* Specification: one call of resolve, which runs until it returns.        *)
(***************************************************************************)
NextResolve ==
    \/ exec_load
    \/ resolve_begin
    \/ resolve_iteration
    \/ resolve_end

SpecResolve == Init /\ [][NextResolve]_vars /\ WF_vars(NextResolve)

(***************************************************************************)
(* Specification: one call of resolve on a registry that holds a chain of  *)
(* packages, each depending on the next, longer than the depth limit of    *)
(* resolve.  The root depends on one of the first packages of the chain.   *)
(***************************************************************************)
ChainLast == MAX_DEPTH + 1

ChainNames == {ToString(i) : i \in 0..ChainLast}

ChainIndex(name) == CHOOSE i \in 0..ChainLast : ToString(i) = name

ChainRegistry ==
    [n \in ChainNames |->
        {Meta(<<1, 0, 0>>,
              IF ChainIndex(n) < ChainLast
              THEN {<<ToString(ChainIndex(n) + 1), Caret1>>} ELSE {},
              {}, {}, Sha512Good)}]

InitDeep ==
    /\ registry = ChainRegistry
    /\ root_deps \in {{<<ToString(i), Caret1>>} : i \in 0..2}
    /\ archives = GoodArchives
    /\ pc = "start"
    /\ run = 1
    /\ published = 0
    /\ metadata_cache = [n \in ChainNames |-> {}]
    /\ existing_lockfile = NotLoaded
    /\ queue = <<>>
    /\ visited = {}
    /\ resolved_versions = [n \in ChainNames |-> NoVersion]
    /\ selected = {}
    /\ graph_nodes = {}
    /\ graph_edges = {}
    /\ lockfile = Lockfile_new
    /\ to_install = <<>>
    /\ from_cache = <<>>
    /\ error = ""
    /\ args = NoArgs
    /\ idx = 0
    /\ counts = NoCounts
    /\ fetched = <<>>
    /\ tarballs = [id \in AllIds |-> NoTarball]
    /\ fs_files = {}
    /\ fs_dirs = {}
    /\ completed = {}
    /\ node_modules = [n \in Names |-> NoLink]
    /\ lock_file = NoFile
    /\ lf_op = NoOp
    /\ meta_fetched = [n \in ChainNames |-> 0]
    /\ proc = NoProc
    /\ pool = NoPool
    /\ now = 0
    /\ metadata_files = NoMetadataFiles
    /\ content_store = NoBlobs
    /\ security = NoSecurity
    /\ policy_log = <<>>
    /\ call = NoCall

SpecDeep == InitDeep /\ [][NextResolve]_vars

(***************************************************************************)
(* Specification: install runs of c and d, where c@1.5.0 is published with *)
(* any archive and integrity algorithm and may be served tampered, or the  *)
(* server answers 404 or, for as long as the run lasts, 503.               *)
(***************************************************************************)
C15 == <<"c", <<1, 5, 0>>>>

\* NetworkConfig::default: retries.
RETRIES == 3

InitInstall ==
    /\ \E algo \in {"sha512", "sha256", "sha1", "md5", ""}, bytes \in ArchiveChoices :
          /\ registry = RegistryOf(Caret1, Caret100, FALSE, {}, {}, IntegrityOf(algo, bytes))
          /\ \E served \in {bytes, TamperedBytes}, status \in {200, 404, 503} :
                archives = [GoodArchives EXCEPT ![C15] = [status |-> status, bytes |-> served]]
    /\ root_deps = {<<"c", Caret1>>, <<"d", Caret1>>}
    /\ InitProcess

SpecInstall == InitInstall /\ [][Next]_vars

(***************************************************************************)
(* Specification: a lockfile is built with add_package and saved; the file *)
(* may then be changed on disk before it is loaded.                        *)
(***************************************************************************)
\* The entries a caller adds: LockedPackages built as resolve builds them,
\* from version metadata whose maps are enumerated in any order. c@1.5.0
\* comes in two contents with one identity.
LockMetas ==
    {<<"a", Meta(<<1, 0, 0>>, {<<"c", Caret1>>, <<"d", Caret1>>}, {<<"d", Caret1>>}, {},
                 Sha512Good)>>,
     <<"c", Meta(<<1, 5, 0>>, {}, {}, {}, Sha512Good)>>,
     <<"c", [Meta(<<1, 5, 0>>, {}, {}, {}, Sha512Good) EXCEPT !.has_scripts = TRUE]>>,
     <<"c", Meta(<<1, 0, 0>>, {}, {}, {<<"d", Caret1>>}, Sha512Good)>>,
     <<"d", [Meta(<<1, 0, 0>>, {}, {}, {}, Sha512Good) EXCEPT !.has_scripts = TRUE]>>}

Locked(name, meta, deps, peers, opts) ==
    locked_package([name |-> name, version |-> meta.version,
                    tarball_url |-> Url(name, meta.version), integrity |-> meta.integrity],
                   deps, peers, opts, meta.has_scripts)

LockedChoices ==
    UNION {{Locked(m[1], m[2], deps, peers, opts) :
               deps \in Perms(m[2].dependencies),
               peers \in Perms(m[2].peer_dependencies),
               opts \in Perms(m[2].optional_dependencies)} : m \in LockMetas}

InitLockfile ==
    /\ registry = PlainRegistry
    /\ archives = GoodArchives
    /\ root_deps = RootC
    /\ metadata_cache = NoMetadata
    /\ run = 1
    /\ published = 0
    /\ existing_lockfile = NotLoaded
    /\ queue = <<>>
    /\ visited = {}
    /\ resolved_versions = NoResolved
    /\ selected = {}
    /\ graph_nodes = {}
    /\ graph_edges = {}
    /\ lockfile = Lockfile_new
    /\ to_install = <<>>
    /\ from_cache = <<>>
    /\ error = ""
    /\ args = NoArgs
    /\ idx = 0
    /\ counts = NoCounts
    /\ fetched = <<>>
    /\ tarballs = [id \in AllIds |-> NoTarball]
    /\ fs_files = {}
    /\ fs_dirs = {}
    /\ completed = {}
    /\ node_modules = [n \in Names |-> NoLink]
    /\ lock_file = NoFile
    /\ lf_op = NoOp
    /\ meta_fetched = NoFetches
    /\ proc = NoProc
    /\ pool = NoPool
    /\ now = 0
    /\ metadata_files = NoMetadataFiles
    /\ content_store = NoBlobs
    /\ security = NoSecurity
    /\ policy_log = <<>>
    /\ call = NoCall
    /\ pc = "lf_build"

NotLockfileVars ==
    <<registry, archives, metadata_cache, root_deps, published, queue, visited,
      resolved_versions, selected, graph_nodes, graph_edges, to_install, from_cache, error,
      args, idx, counts, fetched, tarballs, fs_files, fs_dirs, completed, node_modules,
      meta_fetched, proc, pool, now, metadata_files, content_store, security, policy_log, call>>

\* lockfile.add_package(package)
lf_add_package ==
    /\ pc = "lf_build"
    /\ Len(lockfile.packages) < MaxPackages
    /\ \E package \in LockedChoices :
          /\ lockfile' = Lockfile_add_package(lockfile, package)
          /\ lf_op' = [op |-> "add_package", arg |-> package, before |-> lockfile]
    /\ UNCHANGED <<pc, run, lock_file, existing_lockfile>>
    /\ UNCHANGED NotLockfileVars

\* lockfile.remove_package(name, version)
lf_remove_package ==
    /\ pc = "lf_build"
    /\ \E id \in {<<"c", <<1, 5, 0>>>>, <<"d", <<1, 0, 0>>>>} :
          /\ lockfile' = Lockfile_remove_package(lockfile, id[1], id[2])
          /\ lf_op' = [op |-> "remove_package", arg |-> id, before |-> lockfile]
    /\ UNCHANGED <<pc, run, lock_file, existing_lockfile>>
    /\ UNCHANGED NotLockfileVars

\* lockfile.merge(other), other being the lockfile loaded from disk.
lf_merge ==
    /\ pc = "lf_build"
    /\ existing_lockfile.status = "some"
    /\ lockfile' = Lockfile_merge(lockfile, existing_lockfile.lockfile)
    /\ lf_op' = [op |-> "merge", arg |-> existing_lockfile.lockfile, before |-> lockfile]
    /\ UNCHANGED <<pc, run, lock_file, existing_lockfile>>
    /\ UNCHANGED NotLockfileVars

\* lockfile.diff(other), other being the lockfile itself or the one loaded
\* from disk.
lf_diff ==
    /\ pc = "lf_build"
    /\ \E other \in {lockfile} \cup
                    (IF existing_lockfile.status = "some"
                     THEN {existing_lockfile.lockfile} ELSE {}) :
          lf_op' = [op |-> "diff",
                    arg |-> [other |-> other, result |-> diff(lockfile, other)],
                    before |-> lockfile]
    /\ UNCHANGED <<pc, run, lockfile, lock_file, existing_lockfile>>
    /\ UNCHANGED NotLockfileVars

\* lockfile.save(dir)
lf_save ==
    /\ pc = "lf_build"
    /\ lockfile' = save(lockfile).lockfile
    /\ lock_file' = save(lockfile).file
    /\ lf_op' = [op |-> "save", arg |-> <<>>, before |-> lockfile]
    /\ pc' = "lf_saved"
    /\ UNCHANGED <<run, existing_lockfile>>
    /\ UNCHANGED NotLockfileVars

RemoveAt(seq, i) == SubSeq(seq, 1, i - 1) \o SubSeq(seq, i + 1, Len(seq))

\* Something else rewrites velocity.lock after the save.
lf_tamper ==
    /\ pc = "lf_saved"
    /\ LET content == lock_file.content
       IN \/ \E i \in DOMAIN content["packages"] :
                \E v \in {<<1, 0, 0>>, <<2, 0, 0>>} :
                   /\ v # content["packages"][i]["version"]
                   /\ lock_file' = [lock_file EXCEPT !.content["packages"][i]["version"] = v]
          \/ \E i \in DOMAIN content["packages"] :
                lock_file' = [lock_file EXCEPT !.content["packages"][i]["resolved"] =
                                                  Url("evil", <<1, 0, 0>>)]
          \/ \E i \in DOMAIN content["packages"] :
                lock_file' = [lock_file EXCEPT !.content["packages"][i]["integrity"] =
                                                  IntegrityOf("sha512", TamperedBytes)]
          \/ \E i \in DOMAIN content["packages"] :
                lock_file' = [lock_file EXCEPT !.content["packages"] = RemoveAt(@, i)]
          \/ lock_file' = [lock_file EXCEPT !.content["version"] = LOCKFILE_VERSION + 1]
          \/ lock_file' = [lock_file EXCEPT !.content["integrity"] =
                                               compute_integrity(Lockfile_new)]
          \/ lock_file' = [lock_file EXCEPT !.content =
                              [k \in DOMAIN content \ {"integrity"} |-> content[k]]]
    /\ pc' = "lf_tampered"
    /\ UNCHANGED <<run, lockfile, existing_lockfile, lf_op>>
    /\ UNCHANGED NotLockfileVars

\* Lockfile::load(dir)
lf_load ==
    /\ pc \in {"lf_saved", "lf_tampered"}
    /\ existing_lockfile' = load(lock_file)
    /\ pc' = "lf_loaded"
    /\ UNCHANGED <<run, lockfile, lock_file, lf_op>>
    /\ UNCHANGED NotLockfileVars

\* A later process builds a lockfile anew in the same directory, after
\* loading the one on disk.
lf_again ==
    /\ pc = "lf_loaded"
    /\ existing_lockfile.status = "some"
    /\ run < MaxRuns
    /\ run' = run + 1
    /\ lockfile' = Lockfile_new
    /\ lf_op' = NoOp
    /\ pc' = "lf_build"
    /\ UNCHANGED <<lock_file, existing_lockfile>>
    /\ UNCHANGED NotLockfileVars

NextLockfile ==
    \/ lf_add_package
    \/ lf_remove_package
    \/ lf_merge
    \/ lf_diff
    \/ lf_save
    \/ lf_tamper
    \/ lf_load
    \/ lf_again

SpecLockfile == InitLockfile /\ [][NextLockfile]_vars

(***************************************************************************)
(* Specification: installer runs that share one cache directory.  Each run *)
(* executes Installer::install and Installer::link on the same resolution  *)
(* (c@1.5.0 and d@1.0.0); a step is one file-system call or one request.   *)
(* proc[r] is the state of run r: its position, its flags, the bytes it    *)
(* holds in memory, what it read from the cache (saw) and the requests it  *)
(* sent (requests).                                                        *)
(***************************************************************************)
Runs == {"r1", "r2"}

SharedInstall ==
    <<[name |-> "c", version |-> <<1, 5, 0>>, tarball_url |-> Url("c", <<1, 5, 0>>),
       integrity |-> Sha512Good],
      [name |-> "d", version |-> <<1, 0, 0>>, tarball_url |-> Url("d", <<1, 0, 0>>),
       integrity |-> Sha512Good]>>

\* What reading a file that std::fs::write has created but not yet filled
\* decodes to: the entries written so far, then an unexpected end of file.
Truncated == [File(<<>>) EXCEPT !.kind = "corrupt"]
PartialWrites(data) == {Append(SubSeq(data, 1, n), Truncated) : n \in 0..(Len(data) - 1)}

\* The files a complete extraction of an archive leaves in the tree.
ExpectedFiles(id, bytes) ==
    {<<id, Normalize(PathJoin(get_package_dir(id[1], id[2]), bytes[i],
                              strip_package_prefix(bytes[i].path)), <<>>)>> :
        i \in {j \in DOMAIN bytes : bytes[j].kind = "file"}}

ArchiveComplete(id) == tarballs[id].present /\ tarballs[id].bytes = archives[id].bytes
TreeComplete(id) == id \in fs_dirs /\ ExpectedFiles(id, archives[id].bytes) \subseteq fs_files

StartRun(force, prefer_offline) ==
    [pc |-> "check", force |-> force, prefer_offline |-> prefer_offline, idx |-> 1,
     data |-> <<>>, k |-> 0, saw |-> {}, requests |-> {}, error |-> ""]

InitShared ==
    /\ registry = PlainRegistry
    /\ root_deps = {<<"c", Caret1>>, <<"d", Caret1>>}
    /\ archives = GoodArchives
    /\ pc = "shared"
    /\ run = 1
    /\ published = 0
    /\ metadata_cache = NoMetadata
    /\ existing_lockfile = NotLoaded
    /\ queue = <<>>
    /\ visited = {}
    /\ resolved_versions = NoResolved
    /\ selected = {}
    /\ graph_nodes = {}
    /\ graph_edges = {}
    /\ lockfile = Lockfile_new
    /\ to_install = SharedInstall
    /\ from_cache = <<>>
    /\ error = ""
    /\ args = NoArgs
    /\ idx = 0
    /\ counts = NoCounts
    /\ fetched = <<>>
    /\ tarballs = [id \in AllIds |-> NoTarball]
    /\ fs_files = {}
    /\ fs_dirs = {}
    /\ completed = {}
    /\ node_modules = [n \in Names |-> NoLink]
    /\ lock_file = NoFile
    /\ lf_op = NoOp
    /\ meta_fetched = NoFetches
    /\ proc \in [Runs -> {StartRun(force, prefer_offline) :
                            force \in BOOLEAN, prefer_offline \in BOOLEAN}]
    /\ pool = NoPool
    /\ now = 0
    /\ metadata_files = NoMetadataFiles
    /\ content_store = NoBlobs
    /\ security = NoSecurity
    /\ policy_log = <<>>
    /\ call = NoCall

NotSharedVars ==
    <<registry, archives, metadata_cache, root_deps, pc, run, published, existing_lockfile,
      queue, visited, resolved_versions, selected, graph_nodes, graph_edges, lockfile,
      to_install, from_cache, error, args, idx, counts, fetched, completed, node_modules,
      lock_file, lf_op, meta_fetched, pool, now, metadata_files, content_store, security, policy_log, call>>

RunPackage(r) == to_install[proc[r].idx]
RunId(r) == <<RunPackage(r).name, RunPackage(r).version>>

\* `continue` or the end of the loop body: the next package, or link.
NextPackage(me) ==
    [me EXCEPT !.idx = @ + 1, !.data = <<>>, !.k = 0,
               !.pc = IF me.idx + 1 > Len(to_install) THEN "link" ELSE "check"]

Observation(op, id, complete) == [op |-> op, id |-> id, complete |-> complete]

\* install: `if !force && self.cache.has_package(..)`.
sh_check(r) ==
    /\ proc[r].pc = "check"
    /\ proc' = [proc EXCEPT ![r] =
                  IF ~proc[r].force /\ has_package(fs_dirs, RunPackage(r).name, RunPackage(r).version)
                  THEN NextPackage([proc[r] EXCEPT !.saw = @ \cup
                          {Observation("has_package", RunId(r), TreeComplete(RunId(r)))}])
                  ELSE [proc[r] EXCEPT !.pc = "download"]]
    /\ UNCHANGED <<tarballs, fs_dirs, fs_files>>
    /\ UNCHANGED NotSharedVars

\* download, up to the verified body: the prefer_offline shortcut, else one
\* GET; the request records whether the archive was in the cache.
sh_download(r) ==
    /\ proc[r].pc = "download"
    /\ proc' = [proc EXCEPT ![r] =
                  IF proc[r].prefer_offline
                     /\ has_package(fs_dirs, RunPackage(r).name, RunPackage(r).version)
                  THEN [proc[r] EXCEPT !.pc = "extract", !.saw = @ \cup
                          {Observation("has_package", RunId(r), TreeComplete(RunId(r)))}]
                  ELSE [proc[r] EXCEPT !.pc = "store",
                                       !.data = archives[RunPackage(r).tarball_url].bytes,
                                       !.requests = @ \cup
                                          {[id |-> RunId(r),
                                            archive_cached |-> ArchiveComplete(RunId(r))]}]]
    /\ UNCHANGED <<tarballs, fs_dirs, fs_files>>
    /\ UNCHANGED NotSharedVars

\* store_tarball, std::fs::write: the file is created at its final path and
\* holds part of the data.
sh_store_begin(r) ==
    /\ proc[r].pc = "store"
    /\ \E partial \in PartialWrites(proc[r].data) :
          tarballs' = [tarballs EXCEPT ![RunId(r)] = [present |-> TRUE, bytes |-> partial]]
    /\ proc' = [proc EXCEPT ![r].pc = "storing"]
    /\ UNCHANGED <<fs_dirs, fs_files>>
    /\ UNCHANGED NotSharedVars

\* store_tarball: the write completes.
sh_store_end(r) ==
    /\ proc[r].pc = "storing"
    /\ tarballs' = store_tarball(tarballs, RunPackage(r).name, RunPackage(r).version, proc[r].data)
    /\ proc' = [proc EXCEPT ![r].pc = "extract", ![r].data = <<>>]
    /\ UNCHANGED <<fs_dirs, fs_files>>
    /\ UNCHANGED NotSharedVars

\* extract: the tarball must exist; an existing directory is taken as the
\* extracted tree.
sh_extract_check(r) ==
    /\ proc[r].pc = "extract"
    /\ proc' = [proc EXCEPT ![r] =
                  IF ~tarballs[RunId(r)].present
                  THEN [proc[r] EXCEPT !.pc = "failed", !.error = "Cache"]
                  ELSE IF RunId(r) \in fs_dirs
                  THEN NextPackage([proc[r] EXCEPT !.saw = @ \cup
                          {Observation("extract_dir", RunId(r), TreeComplete(RunId(r)))}])
                  ELSE [proc[r] EXCEPT !.pc = "mkdir"]]
    /\ UNCHANGED <<tarballs, fs_dirs, fs_files>>
    /\ UNCHANGED NotSharedVars

\* extract: create_dir_all, then std::fs::read of the tarball.
sh_extract_read(r) ==
    /\ proc[r].pc = "mkdir"
    /\ fs_dirs' = fs_dirs \cup {RunId(r)}
    /\ proc' = [proc EXCEPT ![r] =
                  [proc[r] EXCEPT !.pc = "entries", !.k = 1,
                                  !.data = tarballs[RunId(r)].bytes,
                                  !.saw = @ \cup {Observation("read_tarball", RunId(r),
                                                              ArchiveComplete(RunId(r)))}]]
    /\ UNCHANGED <<tarballs, fs_files>>
    /\ UNCHANGED NotSharedVars

\* extract: one turn of the loop over archive.entries(), or its end.
sh_extract_entry(r) ==
    /\ proc[r].pc = "entries"
    /\ LET me == proc[r]
           out == extract_entries(RunId(r), get_package_dir(RunId(r)[1], RunId(r)[2]),
                                  <<me.data[me.k]>>, fs_files)
       IN IF me.k > Len(me.data)
          THEN /\ proc' = [proc EXCEPT ![r] = NextPackage(me)]
               /\ UNCHANGED fs_files
          ELSE /\ fs_files' = out.files
               /\ proc' = [proc EXCEPT ![r] =
                             IF out.err # ""
                             THEN [me EXCEPT !.pc = "failed", !.error = out.err]
                             ELSE [me EXCEPT !.k = @ + 1]]
    /\ UNCHANGED <<tarballs, fs_dirs>>
    /\ UNCHANGED NotSharedVars

\* link_packages: every package whose cache directory exists is linked from
\* the tree as it is.
sh_link(r) ==
    /\ proc[r].pc = "link"
    /\ proc' = [proc EXCEPT ![r] =
                  [proc[r] EXCEPT !.pc = "done", !.saw = @ \cup
                      {Observation("link", <<to_install[i].name, to_install[i].version>>,
                                   TreeComplete(<<to_install[i].name, to_install[i].version>>)) :
                          i \in {j \in DOMAIN to_install :
                                    has_package(fs_dirs, to_install[j].name,
                                                to_install[j].version)}}]]
    /\ UNCHANGED <<tarballs, fs_dirs, fs_files>>
    /\ UNCHANGED NotSharedVars

NextShared ==
    \/ \E r \in Runs : sh_check(r)
    \/ \E r \in Runs : sh_download(r)
    \/ \E r \in Runs : sh_store_begin(r)
    \/ \E r \in Runs : sh_store_end(r)
    \/ \E r \in Runs : sh_extract_check(r)
    \/ \E r \in Runs : sh_extract_read(r)
    \/ \E r \in Runs : sh_extract_entry(r)
    \/ \E r \in Runs : sh_link(r)

SpecShared == InitShared /\ [][NextShared]_vars

(***************************************************************************)
(* Specification: one call of Installer::install, Downloader::download_all *)
(* or ParallelExecutor::execute_all over a list of tasks.  pool holds the  *)
(* call: the configured concurrency, the limit given to buffer_unordered,  *)
(* the permits of the semaphore and the status of every task (queued in    *)
(* the stream, waiting for a permit, running, ok or err).                  *)
(***************************************************************************)
MaxTasks == 3
MaxConcurrency == 2

PoolModes == {"install", "download_all", "execute_all"}

StartPool(mode, concurrency, n) ==
    [mode |-> mode, concurrency |-> concurrency,
     \* download_all: buffer_unordered(self.concurrency); execute_all:
     \* buffer_unordered(self.semaphore.available_permits())
     limit |-> concurrency,
     \* Semaphore::new(max_concurrent)
     permits |-> concurrency,
     task |-> [i \in 1..n |-> "queued"],
     failed |-> FALSE]

InFlight(p) == Cardinality({i \in DOMAIN p.task : p.task[i] = "running"})
Buffered(p) == Cardinality({i \in DOMAIN p.task : p.task[i] \in {"waiting", "running"}})
Queued(p) == {i \in DOMAIN p.task : p.task[i] = "queued"}

\* The next item of stream::iter, or of the for loop.
NextTask(p) == CHOOSE i \in Queued(p) : \A j \in Queued(p) : i <= j

\* Mutant of buffer_unordered: the stream is drained without a limit.
buffer_unordered_unbounded(limit, buffered) == TRUE

\* buffer_unordered(limit): a future is taken from the stream only while
\* fewer than limit are buffered.
buffer_unordered(limit, buffered) == buffered < limit

InitPool ==
    /\ registry = PlainRegistry
    /\ root_deps = {<<"c", Caret1>>, <<"d", Caret1>>}
    /\ archives = GoodArchives
    /\ pc = "pool"
    /\ run = 1
    /\ published = 0
    /\ metadata_cache = NoMetadata
    /\ existing_lockfile = NotLoaded
    /\ queue = <<>>
    /\ visited = {}
    /\ resolved_versions = NoResolved
    /\ selected = {}
    /\ graph_nodes = {}
    /\ graph_edges = {}
    /\ lockfile = Lockfile_new
    /\ to_install = <<>>
    /\ from_cache = <<>>
    /\ error = ""
    /\ args = NoArgs
    /\ idx = 0
    /\ counts = NoCounts
    /\ fetched = <<>>
    /\ tarballs = [id \in AllIds |-> NoTarball]
    /\ fs_files = {}
    /\ fs_dirs = {}
    /\ completed = {}
    /\ node_modules = [n \in Names |-> NoLink]
    /\ lock_file = NoFile
    /\ lf_op = NoOp
    /\ meta_fetched = NoFetches
    /\ proc = NoProc
    /\ now = 0
    /\ metadata_files = NoMetadataFiles
    /\ content_store = NoBlobs
    /\ security = NoSecurity
    /\ policy_log = <<>>
    /\ call = NoCall
    /\ pool \in {StartPool(mode, concurrency, n) :
                    mode \in PoolModes, concurrency \in 1..MaxConcurrency, n \in 0..MaxTasks}

NotPoolVars ==
    <<registry, archives, metadata_cache, root_deps, pc, run, published, existing_lockfile,
      queue, visited, resolved_versions, selected, graph_nodes, graph_edges, lockfile,
      to_install, from_cache, error, args, idx, counts, fetched, tarballs, fs_files, fs_dirs,
      completed, node_modules, lock_file, lf_op, meta_fetched, proc,
      now, metadata_files, content_store, security, policy_log, call>>

\* install: the loop awaits download and extract of one package before it
\* takes the next, and returns at the first error.
pool_install_next ==
    /\ pool.mode = "install"
    /\ ~pool.failed
    /\ InFlight(pool) = 0
    /\ Queued(pool) # {}
    /\ pool' = [pool EXCEPT !.task[NextTask(pool)] = "running"]
    /\ UNCHANGED NotPoolVars

\* download_all, execute_all: buffer_unordered takes the next future; the
\* future of execute_all first waits for a permit.
pool_pull ==
    /\ pool.mode \in {"download_all", "execute_all"}
    /\ buffer_unordered(pool.limit, Buffered(pool))
    /\ Queued(pool) # {}
    /\ pool' = [pool EXCEPT !.task[NextTask(pool)] =
                   IF pool.mode = "execute_all" THEN "waiting" ELSE "running"]
    /\ UNCHANGED NotPoolVars

\* execute_all: semaphore.acquire() returns.
pool_acquire ==
    /\ pool.mode = "execute_all"
    /\ pool.permits > 0
    /\ \E i \in DOMAIN pool.task :
          /\ pool.task[i] = "waiting"
          /\ pool' = [pool EXCEPT !.task[i] = "running", !.permits = @ - 1]
    /\ UNCHANGED NotPoolVars

\* A running task returns Ok or Err; execute_all drops the permit.
pool_finish ==
    /\ \E i \in DOMAIN pool.task, result \in {"ok", "err"} :
          /\ pool.task[i] = "running"
          /\ pool' = [pool EXCEPT !.task[i] = result,
                                  !.permits = IF pool.mode = "execute_all" THEN @ + 1 ELSE @,
                                  !.failed = @ \/ (pool.mode = "install" /\ result = "err")]
    /\ UNCHANGED NotPoolVars

NextPool ==
    \/ pool_install_next
    \/ pool_pull
    \/ pool_acquire
    \/ pool_finish

\* A request in flight completes (the client has a timeout) and the
\* executor keeps polling, so a step that can be taken is taken.
SpecPool == InitPool /\ [][NextPool]_vars /\ WF_vars(NextPool)

(***************************************************************************)
(* The specifications below study one component at a time; the install     *)
(* pipeline stays idle in them.                                            *)
(***************************************************************************)
InitIdle ==
    /\ registry = PlainRegistry
    /\ root_deps = {}
    /\ archives = GoodArchives
    /\ pc = "idle"
    /\ run = 1
    /\ published = 0
    /\ metadata_cache = NoMetadata
    /\ existing_lockfile = NotLoaded
    /\ queue = <<>>
    /\ visited = {}
    /\ resolved_versions = NoResolved
    /\ selected = {}
    /\ graph_nodes = {}
    /\ graph_edges = {}
    /\ lockfile = Lockfile_new
    /\ to_install = <<>>
    /\ from_cache = <<>>
    /\ error = ""
    /\ args = NoArgs
    /\ idx = 0
    /\ counts = NoCounts
    /\ fetched = <<>>
    /\ tarballs = [id \in AllIds |-> NoTarball]
    /\ fs_files = {}
    /\ fs_dirs = {}
    /\ completed = {}
    /\ node_modules = [n \in Names |-> NoLink]
    /\ lock_file = NoFile
    /\ lf_op = NoOp
    /\ meta_fetched = NoFetches
    /\ proc = NoProc
    /\ pool = NoPool

IdleVars ==
    <<registry, archives, metadata_cache, root_deps, pc, run, published, existing_lockfile,
      queue, visited, resolved_versions, selected, graph_nodes, graph_edges, lockfile,
      to_install, from_cache, error, args, idx, counts, fetched, tarballs, fs_files, fs_dirs,
      completed, node_modules, lock_file, lf_op, meta_fetched, proc, pool>>

Call(op, input, output) == [op |-> op, input |-> input, output |-> output]

(***************************************************************************)
(* Specification: the metadata files of the cache under a system clock.    *)
(* store_metadata stamps the entry with the clock; get_metadata compares   *)
(* its age with cache.metadata_ttl.  The system clock is not monotonic: it *)
(* advances, and an adjustment may set it back.                            *)
(***************************************************************************)
MaxClock == 4
\* CacheConfig.metadata_ttl, in clock ticks.
metadata_ttl == 2

MetadataNames == {"c", "@s/p"}
MetadataStrings == {"m1", "m2"}

None == [some |-> FALSE, data |-> ""]
Some(data) == [some |-> TRUE, data |-> data]
Panic == [some |-> FALSE, data |-> "panic"]

\* CacheManager::store_metadata on the files of the cache directory.
CacheManager_store_metadata(files, name, data, clock) ==
    [files EXCEPT ![safe_name(name)] = [exists |-> TRUE, data |-> data, cached_at |-> clock]]

\* CacheManager::get_metadata: the set of results a build can give.  The
\* age is a u64 difference: when the clock is behind cached_at the
\* subtraction overflows, which panics in a build with overflow checks and
\* otherwise wraps to a value above every TTL, so the entry is expired.
CacheManager_get_metadata(files, name, clock, ttl) ==
    LET cached == files[safe_name(name)]
    IN IF ~cached.exists THEN {None}
       ELSE IF clock < cached.cached_at THEN {Panic, None}
       ELSE IF clock - cached.cached_at > ttl THEN {None}
       ELSE {Some(cached.data)}

InitMetadata ==
    /\ InitIdle
    /\ now = 0
    /\ metadata_files = NoMetadataFiles
    /\ content_store = NoBlobs
    /\ security = NoSecurity
    /\ policy_log = <<>>
    /\ call = NoCall

md_store_metadata ==
    /\ \E name \in MetadataNames, data \in MetadataStrings :
          /\ metadata_files' = CacheManager_store_metadata(metadata_files, name, data, now)
          /\ call' = Call("store_metadata", [name |-> name, data |-> data], "Ok")
    /\ UNCHANGED <<now, content_store, security, policy_log>>
    /\ UNCHANGED IdleVars

\* The input of the call records the clock and the file it was made on.
md_get_metadata ==
    /\ \E name \in MetadataNames :
       \E result \in CacheManager_get_metadata(metadata_files, name, now, metadata_ttl) :
          call' = Call("get_metadata",
                       [name |-> name, at |-> now, file |-> metadata_files[safe_name(name)]],
                       result)
    /\ UNCHANGED <<now, metadata_files, content_store, security, policy_log>>
    /\ UNCHANGED IdleVars

\* Time passes.
md_tick ==
    /\ now < MaxClock
    /\ now' = now + 1
    /\ UNCHANGED <<metadata_files, content_store, security, policy_log, call>>
    /\ UNCHANGED IdleVars

\* The system clock is set back (SystemTime is not monotonic).
md_clock_set_back ==
    /\ now > 0
    /\ now' = now - 1
    /\ UNCHANGED <<metadata_files, content_store, security, policy_log, call>>
    /\ UNCHANGED IdleVars

NextMetadata ==
    \/ md_store_metadata
    \/ md_get_metadata
    \/ md_tick
    \/ md_clock_set_back

SpecMetadata == InitMetadata /\ [][NextMetadata]_vars

(***************************************************************************)
(* Specification: security/integrity.rs, IntegrityChecker, and the check   *)
(* of the downloader, applied to any data and integrity string.  An        *)
(* integrity string "<prefix>-<hash>" is [algo, digest]; the empty string  *)
(* is IntegrityOf("", ..).                                                 *)
(***************************************************************************)
NoDigest == <<>>
IntegrityPrefixes == {"sha512", "sha256", "sha1", "md5"}
IntegrityData == {GoodBytes, TamperedBytes, <<Manifest>>}
IntegrityStrings ==
    {[algo |-> a, digest |-> d] :
        a \in IntegrityPrefixes,
        d \in {Digest(h, b) : h \in {"sha512", "sha256"}, b \in IntegrityData} \cup {NoDigest}}
    \cup {IntegrityOf("", GoodBytes)}

\* Mutant of compute_hash: no algorithm is known.
compute_hash_unknown(data, algorithm) == NoDigest

\* IntegrityChecker::compute_hash: the empty string for any algorithm other
\* than sha512 and sha256.
compute_hash(data, algorithm) ==
    IF algorithm \in {"sha512", "sha256"} THEN Digest(algorithm, data) ELSE NoDigest

\* IntegrityChecker::parse_integrity
parse_integrity(integrity) ==
    IF integrity.algo \in {"sha512", "sha256", "sha1"}
    THEN [err |-> "", algorithm |-> integrity.algo, expected |-> integrity.digest]
    ELSE [err |-> "Other", algorithm |-> "", expected |-> NoDigest]

\* IntegrityChecker::verify: Ok(true), Ok(false) or the error.
verify(data, integrity) ==
    IF integrity.algo = "" THEN "Ok(true)"
    ELSE IF parse_integrity(integrity).err # "" THEN parse_integrity(integrity).err
    ELSE IF compute_hash(data, parse_integrity(integrity).algorithm)
               = parse_integrity(integrity).expected
    THEN "Ok(true)"
    ELSE "Ok(false)"

\* IntegrityChecker::verify_detailed: Ok or the error.
verify_detailed(data, integrity) ==
    IF integrity.algo = "" THEN "Ok"
    ELSE IF parse_integrity(integrity).err # "" THEN parse_integrity(integrity).err
    ELSE IF compute_hash(data, parse_integrity(integrity).algorithm)
               # parse_integrity(integrity).expected
    THEN "IntegrityCheckFailed"
    ELSE "Ok"

\* IntegrityChecker::compute
compute(data, algorithm) == [algo |-> algorithm, digest |-> compute_hash(data, algorithm)]

InitIntegrity ==
    /\ InitIdle
    /\ now = 0
    /\ metadata_files = NoMetadataFiles
    /\ content_store = NoBlobs
    /\ security = NoSecurity
    /\ policy_log = <<>>
    /\ call = NoCall

ig_verify ==
    /\ \E data \in IntegrityData, integrity \in IntegrityStrings :
          call' = Call("verify", [data |-> data, integrity |-> integrity],
                       verify(data, integrity))
    /\ UNCHANGED <<now, metadata_files, content_store, security, policy_log>>
    /\ UNCHANGED IdleVars

ig_verify_detailed ==
    /\ \E data \in IntegrityData, integrity \in IntegrityStrings :
          call' = Call("verify_detailed", [data |-> data, integrity |-> integrity],
                       verify_detailed(data, integrity))
    /\ UNCHANGED <<now, metadata_files, content_store, security, policy_log>>
    /\ UNCHANGED IdleVars

\* compute, then verify of the computed string against any data.
ig_compute_verify ==
    /\ \E data \in IntegrityData, other \in IntegrityData, algorithm \in IntegrityPrefixes :
          call' = Call("verify", [data |-> other, integrity |-> compute(data, algorithm)],
                       verify(other, compute(data, algorithm)))
    /\ UNCHANGED <<now, metadata_files, content_store, security, policy_log>>
    /\ UNCHANGED IdleVars

\* The downloader's check, as download applies it: skipped for the empty
\* string.
ig_verify_integrity_static ==
    /\ \E data \in IntegrityData, integrity \in IntegrityStrings :
          call' = Call("verify_integrity_static", [data |-> data, integrity |-> integrity],
                       IF integrity.algo = "" \/ verify_integrity_static(data, integrity)
                       THEN "Ok" ELSE "IntegrityCheckFailed")
    /\ UNCHANGED <<now, metadata_files, content_store, security, policy_log>>
    /\ UNCHANGED IdleVars

NextIntegrity ==
    \/ ig_verify
    \/ ig_verify_detailed
    \/ ig_compute_verify
    \/ ig_verify_integrity_static

SpecIntegrity == InitIntegrity /\ [][NextIntegrity]_vars

(***************************************************************************)
(* Specification: resolver/version.rs, VersionConstraint::parse and        *)
(* matches, applied to any constraint string and any version.              *)
(***************************************************************************)
MaxPart == 2

SemVers ==
    {<<a, b, c>> : a \in 0..MaxPart, b \in 0..MaxPart, c \in 0..MaxPart}
    \cup {<<a, b, c, PreTags[t]>> :
            a \in 0..MaxPart, b \in 0..MaxPart, c \in 0..MaxPart, t \in DOMAIN PreTags}

\* The dotted numbers after an operator: a version, a partial version,
\* nothing, or four numbers.
PartsChoices ==
    {<<a, b, c>> : a \in 0..MaxPart, b \in 0..MaxPart, c \in 0..MaxPart}
    \cup {<<1>>, <<0, 1>>, <<>>, <<1, 2, 0, 1>>}

Comparators == {CStr(">=", <<1>>), CStr("<", <<2>>), CStr("", <<1, 0, 0>>), CStr(">=", <<>>)}

ConstraintStrings ==
    {CStr(op, parts) : op \in PrefixOperators \cup {""}, parts \in PartsChoices}
    \cup {Star, CStr("latest", <<>>)}
    \cup {CStr(" ", <<a, b>>) : a \in Comparators, b \in Comparators}
    \cup {CStr(" ", <<a, b, c>>) : a \in Comparators, b \in Comparators, c \in Comparators}
    \cup {CStr("||", <<a, b>>) : a \in Comparators, b \in Comparators}

\* A constraint string and a version are drawn; parse and matches are then
\* applied to them.
InitVersion ==
    /\ InitIdle
    /\ now = 0
    /\ metadata_files = NoMetadataFiles
    /\ content_store = NoBlobs
    /\ security = NoSecurity
    /\ policy_log = <<>>
    /\ call \in {Call("input", [str |-> str, version |-> version], <<>>) :
                    str \in ConstraintStrings, version \in SemVers}

vc_parse ==
    /\ call.op = "input"
    /\ call' = Call("parse", call.input.str, parse(call.input.str))
    /\ UNCHANGED <<now, metadata_files, content_store, security, policy_log>>
    /\ UNCHANGED IdleVars

\* matches on the parsed constraint.
vc_matches ==
    /\ call.op = "input"
    /\ parse(call.input.str).kind # "Err"
    /\ call' = Call("matches",
                    [constraint |-> parse(call.input.str), version |-> call.input.version],
                    matches(parse(call.input.str), call.input.version))
    /\ UNCHANGED <<now, metadata_files, content_store, security, policy_log>>
    /\ UNCHANGED IdleVars

NextVersion ==
    \/ vc_parse
    \/ vc_matches

SpecVersion == InitVersion /\ [][NextVersion]_vars

(***************************************************************************)
(* security/supply_chain.rs: package names are sequences of characters.    *)
(* POPULAR_PACKAGES is a HashSet, whose iteration order is not specified:  *)
(* a scan of it visits its entries in some order, drawn here with the      *)
(* name.  The list and the patterns are part of the source's.              *)
(***************************************************************************)
POPULAR_PACKAGES ==
    { <<"n", "e", "x", "t">>, <<"j", "e", "s", "t">>, <<"n", "e", "s", "t", "j", "s">>,
      <<"k", "o", "a">>, <<"k", "y">> }

SUSPICIOUS_PATTERNS ==
    << <<"-", "d", "e", "v">>, <<"-", "t", "e", "s", "t">> >>

\* str::to_lowercase on the characters the names below use.
to_lowercase(name) ==
    [i \in DOMAIN name |->
        CASE name[i] = "N" -> "n"
          [] name[i] = "K" -> "k"
          [] name[i] = "Y" -> "y"
          [] OTHER -> name[i]]

\* str::contains.
contains(s, pattern) ==
    \E i \in 1..(Len(s) - Len(pattern) + 1) : SubSeq(s, i, i + Len(pattern) - 1) = pattern

Min2(x, y) == IF x <= y THEN x ELSE y

\* SupplyChainGuard::levenshtein: the dp table, dp[m][n] the distance.
levenshtein(a, b) ==
    LET m == Len(a)
        n == Len(b)
        dp[i \in 0..m, j \in 0..n] ==
            IF i = 0 THEN j
            ELSE IF j = 0 THEN i
            ELSE LET cost == IF a[i] = b[j] THEN 0 ELSE 1
                 IN Min2(Min2(dp[i - 1, j] + 1, dp[i, j - 1] + 1), dp[i - 1, j - 1] + cost)
    IN IF m = 0 THEN n ELSE IF n = 0 THEN m ELSE dp[m, n]

NoWarning == [some |-> FALSE]

TyposquatWarning(name, popular, distance) ==
    [some |-> TRUE, suspicious |-> name, similar_to |-> popular, distance |-> distance,
     severity |-> IF distance = 1 THEN "High" ELSE "Medium"]

\* SupplyChainGuard::check_typosquat: the loop over POPULAR_PACKAGES.iter(), which
\* yields the entries as `order` lists them; the first entry that equals the name
\* or lies at distance 1 or 2 from it ends the loop.
RECURSIVE check_typosquat_from(_, _, _)
check_typosquat_from(name, order, i) ==
    IF i > Len(order) THEN NoWarning
    ELSE LET normalized == to_lowercase(name)
             popular == order[i]
             distance == levenshtein(normalized, popular)
         IN IF popular = normalized THEN NoWarning
            ELSE IF distance > 0 /\ distance <= 2
                 THEN TyposquatWarning(name, popular, distance)
                 ELSE check_typosquat_from(name, order, i + 1)

check_typosquat(name, order) == check_typosquat_from(name, order, 1)

\* SupplyChainGuard::check_suspicious_name: the first pattern the name contains.
RECURSIVE check_suspicious_name_from(_, _)
check_suspicious_name_from(name, i) ==
    IF i > Len(SUSPICIOUS_PATTERNS) THEN NoWarning
    ELSE IF contains(to_lowercase(name), SUSPICIOUS_PATTERNS[i])
         THEN [some |-> TRUE, package |-> name, pattern |-> SUSPICIOUS_PATTERNS[i]]
         ELSE check_suspicious_name_from(name, i + 1)

check_suspicious_name(name) == check_suspicious_name_from(name, 1)

\* SupplyChainGuard::analyze.
analyze(name, order) ==
    LET typosquat == check_typosquat(name, order)
        suspicious == check_suspicious_name(name)
        risk_level ==
            IF typosquat.some /\ typosquat.severity = "High" THEN "High"
            ELSE IF typosquat.some \/ suspicious.some THEN "Medium"
            ELSE "Low"
    IN [package |-> name, risk_level |-> risk_level, typosquat_warning |-> typosquat,
        suspicious_name |-> suspicious]

\* The names analysed: the popular ones, one in capitals, near misses of one or
\* of several popular names, a name far from all of them, and suspicious names.
AuditNames ==
    POPULAR_PACKAGES \cup
    { <<"N", "e", "x", "t">>, <<"K", "Y">>,
      <<"n", "e", "s", "t">>, <<"n", "e", "x">>, <<"k", "o", "y">>, <<"k", "o">>,
      <<"t", "a", "r">>, <<"p", "g", "-", "d", "e", "v">>,
      <<"k", "y", "-", "t", "e", "s", "t">> }

InitSupply ==
    /\ InitIdle
    /\ now = 0
    /\ metadata_files = NoMetadataFiles
    /\ content_store = NoBlobs
    /\ security = NoSecurity
    /\ policy_log = <<>>
    /\ call \in {Call("input", [name |-> name, order |-> order], <<>>) :
                    name \in AuditNames, order \in Perms(POPULAR_PACKAGES)}

sc_check_typosquat ==
    /\ call.op = "input"
    /\ call' = Call("check_typosquat", call.input,
                    check_typosquat(call.input.name, call.input.order))
    /\ UNCHANGED <<now, metadata_files, content_store, security, policy_log>>
    /\ UNCHANGED IdleVars

\* cli/commands/audit.rs: the audit of one dependency name.
sc_analyze ==
    /\ call.op = "input"
    /\ call' = Call("analyze", call.input, analyze(call.input.name, call.input.order))
    /\ UNCHANGED <<now, metadata_files, content_store, security, policy_log>>
    /\ UNCHANGED IdleVars

NextSupply ==
    \/ sc_check_typosquat
    \/ sc_analyze

SpecSupply == InitSupply /\ [][NextSupply]_vars

(***************************************************************************)
(* core/config.rs: the configuration after the files are merged, and the   *)
(* environment.  A variable is unset or holds a string.                    *)
(***************************************************************************)
Unset == "<unset>"

EnvValues == {Unset, "1", "true", "TRUE", "0", "false", "yes", "8", "abc", ""}

\* str::parse for an unsigned integer.
parse_int(value) ==
    CASE value = "0" -> [ok |-> TRUE, n |-> 0]
      [] value = "1" -> [ok |-> TRUE, n |-> 1]
      [] value = "8" -> [ok |-> TRUE, n |-> 8]
      [] OTHER -> [ok |-> FALSE, n |-> 0]

\* str::to_lowercase on the values above.
env_to_lowercase(value) == IF value = "TRUE" THEN "true" ELSE value

\* Configurations: the defaults (offline false, timeout 30, concurrency 16) and
\* what a velocity.toml can set.
Configs ==
    [registry_url : {"https://registry.npmjs.org"},
     cache_dir : {"<none>", "/cfg/cache"},
     offline : BOOLEAN,
     concurrency : {16, 4},
     timeout : {30, 5}]

Envs ==
    [VELOCITY_REGISTRY : {Unset, "https://mirror"},
     VELOCITY_CACHE_DIR : {Unset, "/env/cache"},
     VELOCITY_OFFLINE : EnvValues,
     VELOCITY_CONCURRENCY : EnvValues,
     VELOCITY_TIMEOUT : EnvValues]

\* Config::apply_env_overrides.
apply_env_overrides(self, env) ==
    LET concurrency == parse_int(env.VELOCITY_CONCURRENCY)
        timeout == parse_int(env.VELOCITY_TIMEOUT)
    IN [registry_url |-> IF env.VELOCITY_REGISTRY # Unset
                         THEN env.VELOCITY_REGISTRY ELSE self.registry_url,
        cache_dir |-> IF env.VELOCITY_CACHE_DIR # Unset
                      THEN env.VELOCITY_CACHE_DIR ELSE self.cache_dir,
        offline |-> IF env.VELOCITY_OFFLINE # Unset
                    THEN env.VELOCITY_OFFLINE = "1"
                         \/ env_to_lowercase(env.VELOCITY_OFFLINE) = "true"
                    ELSE self.offline,
        concurrency |-> IF env.VELOCITY_CONCURRENCY # Unset /\ concurrency.ok
                        THEN concurrency.n ELSE self.concurrency,
        timeout |-> IF env.VELOCITY_TIMEOUT # Unset /\ timeout.ok
                    THEN timeout.n ELSE self.timeout]

InitConfig ==
    /\ InitIdle
    /\ now = 0
    /\ metadata_files = NoMetadataFiles
    /\ content_store = NoBlobs
    /\ security = NoSecurity
    /\ policy_log = <<>>
    /\ call \in {Call("input", [config |-> config, env |-> env], <<>>) :
                    config \in Configs, env \in Envs}

\* Config::load: the merged configuration passes through apply_env_overrides.
cf_apply_env_overrides ==
    /\ call.op = "input"
    /\ call' = Call("apply_env_overrides", call.input,
                    apply_env_overrides(call.input.config, call.input.env))
    /\ UNCHANGED <<now, metadata_files, content_store, security, policy_log>>
    /\ UNCHANGED IdleVars

NextConfig == cf_apply_env_overrides

SpecConfig == InitConfig /\ [][NextConfig]_vars

(***************************************************************************)
(* cache/store.rs: the content-addressed blob store, used by one caller.   *)
(* Contents are byte sequences; the store is the set of files under its    *)
(* directory.  Every call records the store it found and the hashes that   *)
(* earlier store calls returned.                                           *)
(***************************************************************************)
MaxBlobLen == 1

BlobBytes == {"x", "y"}

Blobs == UNION {[1..n -> BlobBytes] : n \in 0..MaxBlobLen}

\* ContentStore::hash, were SHA-256 to tell contents apart by their length only.
hash_by_length(content) == <<"sha256", Len(content)>>

\* ContentStore::hash: the SHA-256 of the content, one digest per content.
hash(content) == <<"sha256", content>>

\* ContentStore::hash_path: <store_dir>/<first two characters>/<rest>.
hash_path(h) == <<"content", h[1], h[2]>>

\* Path::exists.
exists(files, path) == \E f \in files : f.path = path

\* ContentStore::store: the file is written only if its path does not exist.
ContentStore_store(files, content) ==
    LET h == hash(content)
        path == hash_path(h)
    IN [files |-> IF ~exists(files, path)
                  THEN files \cup {[path |-> path, bytes |-> content]}
                  ELSE files,
        hash |-> h]

\* ContentStore::get.
ContentStore_get(files, h) ==
    LET path == hash_path(h)
    IN IF exists(files, path)
       THEN Some((CHOOSE f \in files : f.path = path).bytes)
       ELSE None

\* ContentStore::remove.
ContentStore_remove(files, h) ==
    LET path == hash_path(h)
    IN [files |-> {f \in files : f.path # path}, removed |-> exists(files, path)]

\* The hashes earlier store calls returned, by content.
Returned ==
    IF call.op = "none" THEN {}
    ELSE IF call.op = "store"
         THEN call.input.returned \cup {[content |-> call.input.content, hash |-> call.output]}
         ELSE call.input.returned

InitBlobs ==
    /\ InitIdle
    /\ now = 0
    /\ metadata_files = NoMetadataFiles
    /\ content_store = NoBlobs
    /\ security = NoSecurity
    /\ policy_log = <<>>
    /\ call = NoCall

bs_store ==
    \E content \in Blobs :
        LET r == ContentStore_store(content_store, content)
        IN /\ content_store' = r.files
           /\ call' = Call("store",
                           [content |-> content, before |-> content_store,
                            returned |-> Returned],
                           r.hash)
           /\ UNCHANGED <<now, metadata_files, security, policy_log>>
           /\ UNCHANGED IdleVars

\* get with a hash an earlier store returned.
bs_get ==
    \E r \in Returned :
        /\ call' = Call("get",
                        [hash |-> r.hash, before |-> content_store,
                         returned |-> Returned],
                        ContentStore_get(content_store, r.hash))
        /\ UNCHANGED <<now, metadata_files, content_store, security, policy_log>>
        /\ UNCHANGED IdleVars

bs_remove ==
    \E r \in Returned :
        LET d == ContentStore_remove(content_store, r.hash)
        IN /\ content_store' = d.files
           /\ call' = Call("remove",
                           [hash |-> r.hash, before |-> content_store,
                            returned |-> Returned],
                           d.removed)
           /\ UNCHANGED <<now, metadata_files, security, policy_log>>
           /\ UNCHANGED IdleVars

\* ContentStore::clear.
bs_clear ==
    /\ call.op # "none"
    /\ content_store' = NoBlobs
    /\ call' = Call("clear", [before |-> content_store, returned |-> Returned], TRUE)
    /\ UNCHANGED <<now, metadata_files, security, policy_log>>
    /\ UNCHANGED IdleVars

NextBlobs ==
    \/ bs_store
    \/ bs_get
    \/ bs_remove
    \/ bs_clear

SpecBlobs == InitBlobs /\ [][NextBlobs]_vars

(***************************************************************************)
(* Specification: the script gates.  A SecurityManager is built from a     *)
(* configuration; grant, deny, set_package_permissions and clear_cache     *)
(* change its PermissionManager, and should_run_script, check,             *)
(* verify_package_allowed and ScriptSandbox::execute are asked about a     *)
(* package.  call holds the last operation; security is the state it ran   *)
(* in (queries) or left behind (updates).                                  *)
(***************************************************************************)
MaxDecisions == 1

SecurityPackages == {"a", "b", "@s/p"}
SecurityConfigs ==
    [allow_scripts : BOOLEAN, trusted_scopes : SUBSET {"@s"}, trusted_packages : SUBSET {"a"},
     dependency_confusion_protection : BOOLEAN]
CachedPermissions == {"Scripts", "Network"}
ScriptDecisions == {"None", "Allow", "Deny", "Prompt"}

InitSecurity ==
    /\ InitIdle
    /\ now = 0
    /\ metadata_files = NoMetadataFiles
    /\ content_store = NoBlobs
    /\ security \in {SecurityManager_new(config) : config \in SecurityConfigs}
    /\ policy_log = <<>>
    /\ call = NoCall

NotSecurityVars == <<now, metadata_files, content_store, policy_log>>

\* A question does not change the manager: each state of the manager is
\* asked once, and the answer stays in call until the next update.
Asked == call.op \in {"should_run_script", "check", "verify_package_allowed", "execute"}

sec_grant ==
    \E package \in SecurityPackages, permission \in CachedPermissions :
        /\ \/ <<package, permission>> \in DOMAIN security.cached_decisions
           \/ Cardinality(DOMAIN security.cached_decisions) < MaxDecisions
        /\ security' = grant(security, package, permission)
        /\ call' = Call("grant", [package |-> package, permission |-> permission], TRUE)
        /\ UNCHANGED NotSecurityVars
        /\ UNCHANGED IdleVars

sec_deny ==
    \E package \in SecurityPackages, permission \in CachedPermissions :
        /\ \/ <<package, permission>> \in DOMAIN security.cached_decisions
           \/ Cardinality(DOMAIN security.cached_decisions) < MaxDecisions
        /\ security' = deny(security, package, permission)
        /\ call' = Call("deny", [package |-> package, permission |-> permission], TRUE)
        /\ UNCHANGED NotSecurityVars
        /\ UNCHANGED IdleVars

sec_set_package_permissions ==
    \E scripts \in ScriptDecisions :
        /\ security' = set_package_permissions(security, "b",
                          [PackagePermissions_default EXCEPT !["Scripts"] = scripts])
        /\ call' = Call("set_package_permissions", [package |-> "b", scripts |-> scripts], TRUE)
        /\ UNCHANGED NotSecurityVars
        /\ UNCHANGED IdleVars

sec_clear_cache ==
    /\ DOMAIN security.cached_decisions # {}
    /\ security' = clear_cache(security)
    /\ call' = Call("clear_cache", <<>>, TRUE)
    /\ UNCHANGED NotSecurityVars
    /\ UNCHANGED IdleVars

sec_should_run_script ==
    \E package \in SecurityPackages :
        /\ ~Asked
        /\ call' = Call("should_run_script", [package |-> package],
                        should_run_script(security.config, package))
        /\ UNCHANGED security
        /\ UNCHANGED NotSecurityVars
        /\ UNCHANGED IdleVars

sec_check ==
    \E package \in SecurityPackages, permission \in Permissions :
        /\ ~Asked
        /\ call' = Call("check", [package |-> package, permission |-> permission],
                        check(security, package, permission))
        /\ UNCHANGED security
        /\ UNCHANGED NotSecurityVars
        /\ UNCHANGED IdleVars

sec_verify_package_allowed ==
    \E package \in SecurityPackages :
        /\ ~Asked
        /\ call' = Call("verify_package_allowed", [package |-> package],
                        verify_package_allowed(security.config, package))
        /\ UNCHANGED security
        /\ UNCHANGED NotSecurityVars
        /\ UNCHANGED IdleVars

\* execute on a sandbox built with or without with_permissions.
sec_execute ==
    \E package \in SecurityPackages, with_permissions \in BOOLEAN :
        /\ ~Asked
        /\ call' = Call("execute", [package |-> package, permissions |-> with_permissions],
                        execute(IF with_permissions THEN Some(security) ELSE None, package))
        /\ UNCHANGED security
        /\ UNCHANGED NotSecurityVars
        /\ UNCHANGED IdleVars

NextSecurity ==
    \/ sec_grant
    \/ sec_deny
    \/ sec_set_package_permissions
    \/ sec_clear_cache
    \/ sec_should_run_script
    \/ sec_check
    \/ sec_verify_package_allowed
    \/ sec_execute

SpecSecurity == InitSecurity /\ [][NextSecurity]_vars

(***************************************************************************)
(* Properties of the resolver.                                             *)
(***************************************************************************)
ResolvedNames == {n \in DOMAIN resolved_versions : resolved_versions[n] # NoVersion}

\* The metadata of the version the resolver chose for a name.
ChosenMeta(n) == VersionMeta(RegistryAnswer(registry, n), resolved_versions[n])

\* Every constraint placed on a name: by the root dependencies and by the
\* dependencies and optionalDependencies of every chosen package.
ConstraintsOn(n) ==
    {d[2] : d \in {r \in root_deps : r[1] = n}}
    \cup UNION {{d[2] : d \in {x \in ChosenMeta(m).dependencies
                                      \cup ChosenMeta(m).optional_dependencies : x[1] = n}}
                : m \in ResolvedNames}

SitesOf(n) == {s \in selected : s.name = n}

\* C1 as claimed: after resolve succeeds, the version chosen for a name
\* satisfies every constraint placed on that name in the transitive graph.
C1_SatisfiesEveryConstraint ==
    pc = "resolved" =>
        \A n \in ResolvedNames : \A c \in ConstraintsOn(n) :
            matches(parse(c), resolved_versions[n])

\* C1 as amended: after resolve succeeds, the version chosen for a name is a
\* version of the registry that satisfies the constraint of at least one
\* processed site of that name, the site that selected it.
C1_SatisfiesSelectingSite ==
    pc = "resolved" =>
        \A n \in ResolvedNames :
            /\ resolved_versions[n] \in Versions(RegistryAnswer(registry, n))
            /\ \E s \in SitesOf(n) :
                  /\ <<s.name, s.constraint>> \in visited
                  /\ matches(parse(s.constraint), resolved_versions[n])

C1_Witness ==
    /\ pc = "resolved"
    /\ \E n \in ResolvedNames : \E c \in ConstraintsOn(n) :
          ~matches(parse(c), resolved_versions[n])

\* C2: once the worklist has drained, the version chosen for a name is the
\* greatest of the versions its processed sites selected; for two sites
\* selecting v1 and v2 it is max(v1, v2), whichever site was popped first.
C2_HigherWins ==
    (pc = "resolving" /\ queue = <<>>) \/ pc = "resolved" =>
        \A n \in DOMAIN resolved_versions :
            /\ SitesOf(n) = {} <=> resolved_versions[n] = NoVersion
            /\ SitesOf(n) # {} =>
                  resolved_versions[n] = MaxVersion({s.version : s \in SitesOf(n)})

\* Two sites of c selected different versions and the lower one was popped
\* first: both versions were emitted.
C2_Witness ==
    /\ pc = "resolved"
    /\ \E s1, s2 \in SitesOf("c") : VLt(s1.version, s2.version)
    /\ Cardinality({p \in Range(lockfile.packages) : p.name = "c"}) = 2

\* C3 as claimed: after resolve succeeds the lockfile holds exactly one entry
\* for each resolved name, and the install that follows fetches no archive
\* of a package more than once.
C3_OnceInResolution ==
    /\ pc = "resolved" =>
          \A n \in ResolvedNames :
              Cardinality({i \in DOMAIN lockfile.packages : lockfile.packages[i].name = n}) = 1
    /\ pc \in {"installing", "link"} =>
          \A n \in ResolvedNames :
              Cardinality({i \in DOMAIN fetched : fetched[i][1] = n}) <= 1

\* The dependency relation among the chosen packages.
DependencyRelation ==
    {<<m, d[1]>> : m \in ResolvedNames, d \in UNION {ChosenMeta(k).dependencies : k \in ResolvedNames}}
    \cap {<<m, n>> \in ResolvedNames \X ResolvedNames :
            \E d \in ChosenMeta(m).dependencies : d[1] = n}

\* C4 as claimed: whenever resolve returns Ok the dependency relation among
\* the resolved packages is acyclic (a cycle fails with CircularDependency).
C4_CycleRejected ==
    pc = "resolved" => ~has_cycle(DependencyRelation)

\* C5 as claimed: with the registry unchanged, a second resolve of the same
\* root dependencies yields the (name, version) set the first run locked,
\* whatever the enumeration order of the dependency maps.
C5_Deterministic ==
    pc = "resolved" /\ published = 0 /\ existing_lockfile.status = "some" =>
        LockSet(lockfile) = LockSet(existing_lockfile.lockfile)

\* C6 as claimed: when a valid lockfile of an earlier run is present, the
\* install selects exactly the locked (name, version) set, even after the
\* registry published a higher matching version.
C6_LockfilePins ==
    pc = "resolved" /\ existing_lockfile.status = "some" /\ published > 0 =>
        LockSet(lockfile) = LockSet(existing_lockfile.lockfile)

(***************************************************************************)
(* Properties of the installer.                                            *)
(***************************************************************************)
PublishedIds == {id \in AllIds : id[2] \in Versions(registry[id[1]])}
IntegrityFor(id) == VersionMeta(registry[id[1]], id[2]).integrity

Mismatch(id) ==
    /\ IntegrityFor(id).algo \in {"sha512", "sha256", "sha1"}
    /\ archives[id].status = 200
    /\ Digest(IntegrityFor(id).algo, archives[id].bytes) # IntegrityFor(id).digest

\* C7 as claimed: when the fetched bytes do not match the non-empty integrity
\* string (sha512, sha256 or sha1), install fails with IntegrityCheckFailed
\* and neither the archive nor an extracted tree is written to the cache.
C7_TamperRejected ==
    \A id \in PublishedIds :
        Mismatch(id) =>
            /\ ~tarballs[id].present
            /\ id \notin fs_dirs
            /\ id \in Range(fetched) => pc = "failed" /\ error = "IntegrityCheckFailed"

IsPrefix(p, q) == Len(p) <= Len(q) /\ SubSeq(q, 1, Len(p)) = p

Offending(entry) ==
    \/ \E i \in DOMAIN entry.path : entry.path[i] \in DotDotComponents
    \/ entry.absolute
    \/ entry.nul

\* The position of the first entry the loop cannot pass, 0 when none.
FirstStop(entries) ==
    IF \E k \in DOMAIN entries : Offending(entries[k]) \/ entries[k].kind = "corrupt"
    THEN CHOOSE k \in DOMAIN entries :
            /\ Offending(entries[k]) \/ entries[k].kind = "corrupt"
            /\ \A j \in 1..(k - 1) : ~Offending(entries[j]) /\ entries[j].kind # "corrupt"
    ELSE 0

EntryTarget(id, entry) ==
    Normalize(PathJoin(get_package_dir(id[1], id[2]), entry, strip_package_prefix(entry.path)),
              <<>>)

\* C8: extract writes no file outside the extracted-tree directory of the
\* package, and an entry whose path contains "..", is absolute or contains
\* NUL is never written: the extraction that meets it fails with
\* PathTraversal and does not run to its end.
C8_NoPathTraversal ==
    /\ \A f \in fs_files : IsPrefix(get_package_dir(f[1][1], f[1][2]), f[2])
    /\ \A id \in fs_dirs :
          LET entries == tarballs[id].bytes
              k == FirstStop(entries)
          IN /\ \A j \in DOMAIN entries :
                   Offending(entries[j]) => <<id, EntryTarget(id, entries[j])>> \notin fs_files
             /\ (k > 0 /\ Offending(entries[k])) =>
                   /\ id \notin completed
                   /\ (pc = "failed" /\ idx \in DOMAIN to_install
                       /\ <<to_install[idx].name, to_install[idx].version>> = id)
                      => error = "PathTraversal"

\* An archive with an offending entry was extracted up to that entry.
C8_Witness ==
    /\ pc = "failed"
    /\ error = "PathTraversal"
    /\ C15 \in fs_dirs
    /\ \E f \in fs_files : f[1] = C15
    /\ \E j \in DOMAIN tarballs[C15].bytes :
          /\ Offending(tarballs[C15].bytes[j])
          /\ ~IsPrefix(get_package_dir("c", <<1, 5, 0>>), EntryTarget(C15, tarballs[C15].bytes[j]))

\* C9 as claimed: the extracted-tree directory of a package exists iff an
\* extraction of it ran to completion, so a failed extract leaves
\* has_package false.
C9_DirIffExtracted ==
    \A id \in AllIds : has_package(fs_dirs, id[1], id[2]) <=> id \in completed

(***************************************************************************)
(* Properties of the lockfile codec.                                       *)
(***************************************************************************)
\* C10 as claimed: after save, any change to the stored content (a field of
\* an entry, the format version, the integrity line, or its deletion) makes
\* load fail with InvalidLockfile.
C10_TamperDetected ==
    pc = "lf_loaded" /\ lock_file.content # to_string(lockfile) =>
        existing_lockfile.status = "InvalidLockfile"

\* The lockfile on disk is the one save wrote.
Untampered == lock_file.exists /\ lock_file.content = to_string(lockfile)

\* C11: for a lockfile built with add_package, save followed by load
\* succeeds and returns the entries in the order save gave them, with the
\* integrity string save computed.
C11_RoundTrip ==
    pc = "lf_loaded" /\ Untampered =>
        /\ existing_lockfile.status = "some"
        /\ existing_lockfile.lockfile.packages = sort_packages(lf_op.before.packages)
        /\ existing_lockfile.lockfile.packages = lockfile.packages
        /\ existing_lockfile.lockfile.integrity = lockfile.integrity
        /\ existing_lockfile.lockfile.integrity # NoIntegrity

\* Two entries, one with install scripts, were added out of order, saved
\* and loaded back.
C11_Witness ==
    /\ pc = "lf_loaded"
    /\ Untampered
    /\ existing_lockfile.status = "some"
    /\ Len(lockfile.packages) = 2
    /\ lf_op.before.packages # lockfile.packages
    /\ \E p \in Range(lockfile.packages) : p.has_scripts

\* The logical content of an entry: its dependency lists as sets.
Logical(p) ==
    [p EXCEPT !.dependencies = Range(@), !.peer_dependencies = Range(@),
              !.optional_dependencies = Range(@)]
LogicalSet(lf) == {Logical(p) : p \in Range(lf.packages)}

\* C12 as claimed: two saves of the same logical set of packages write the
\* same content, whatever the order of the add_package calls and the
\* iteration order of the dependency maps the entries were built from.
C12_SaveDeterministic ==
    /\ pc = "lf_saved"
    /\ existing_lockfile.status = "some"
    /\ integrity_accepted(existing_lockfile.lockfile)
    /\ existing_lockfile.lockfile.integrity # NoIntegrity
    /\ LogicalSet(lockfile) = LogicalSet(existing_lockfile.lockfile)
    => lock_file.content = to_string(existing_lockfile.lockfile)

\* Each (name, version) occurs at most once in the lockfile.
OnePerIdentity(lf) ==
    \A i, j \in DOMAIN lf.packages :
        (lf.packages[i].name = lf.packages[j].name
         /\ lf.packages[i].version = lf.packages[j].version) => i = j

\* C15: after any sequence of add_package, remove_package and merge from
\* the empty lockfile there is at most one entry per (name, version);
\* add_package leaves its argument as the entry of that identity, after the
\* other entries; remove_package drops exactly the entries of the identity;
\* merge keeps every entry that was present and adds only new identities.
C15_OneEntryPerIdentity ==
    pc = "lf_build" =>
        /\ OnePerIdentity(lockfile)
        /\ lf_op.op = "add_package" =>
              /\ lockfile.packages[Len(lockfile.packages)] = lf_op.arg
              /\ \A p \in Range(lf_op.before.packages) :
                    p \in Range(lockfile.packages)
                    \/ (p.name = lf_op.arg.name /\ p.version = lf_op.arg.version)
        /\ lf_op.op = "remove_package" =>
              Range(lockfile.packages) =
                 {p \in Range(lf_op.before.packages) : <<p.name, p.version>> # lf_op.arg}
        /\ lf_op.op = "merge" =>
              /\ SubSeq(lockfile.packages, 1, Len(lf_op.before.packages))
                    = lf_op.before.packages
              /\ LockSet(lockfile) = LockSet(lf_op.before) \cup LockSet(lf_op.arg)

\* add_package replaced an entry of the same identity and another content.
C15_Witness ==
    /\ pc = "lf_build"
    /\ lf_op.op = "add_package"
    /\ \E p \in Range(lf_op.before.packages) :
          /\ p.name = lf_op.arg.name
          /\ p.version = lf_op.arg.version
          /\ p # lf_op.arg

\* The versions in the metadata resolve obtained for a name that satisfy a
\* constraint string.
MatchingVersions(name, constraint) ==
    {v \in Versions(get_metadata(metadata_cache, name)) : matches(parse(constraint), v)}

\* C13: the version selected for each processed (name, constraint) is the
\* greatest version of the package's metadata that satisfies the constraint,
\* and a processed constraint that no version satisfies makes resolve fail.
C13_GreatestMatching ==
    /\ \A s \in selected :
          /\ MatchingVersions(s.name, s.constraint) # {}
          /\ s.version = MaxVersion(MatchingVersions(s.name, s.constraint))
    /\ \A key \in visited :
          (get_metadata(metadata_cache, key[1]) # {} /\ MatchingVersions(key[1], key[2]) = {})
          => (pc = "failed" /\ error = "InvalidVersionConstraint"
              /\ \A s \in selected : <<s.name, s.constraint>> # key)

\* resolve succeeded and a site selected a version that is neither the
\* greatest nor the lowest one of the package.
C13_Witness ==
    /\ pc = "resolved"
    /\ \E s \in selected :
          /\ \E v \in Versions(get_metadata(metadata_cache, s.name)) : VLt(s.version, v)
          /\ \E v \in MatchingVersions(s.name, s.constraint) : VLt(v, s.version)

\* C14: resolve, once called, returns Ok or Err, and an iteration that does
\* more than pop its item (a request, a selection, an emitted entry or a
\* failure) adds a key to the visited set that was not in it, so each
\* (name, constraint) key is processed at most once.
C14_WorklistDrains ==
    /\ (pc = "resolve") ~> (pc \in {"resolved", "failed"})
    /\ [][(pc = "resolving" /\ queue # <<>>
           /\ (meta_fetched' # meta_fetched \/ selected' # selected
               \/ lockfile' # lockfile \/ pc' = "failed"))
          => (/\ <<queue[Len(queue)].name, queue[Len(queue)].constraint>> \notin visited
              /\ visited' = visited \cup
                    {<<queue[Len(queue)].name, queue[Len(queue)].constraint>>})]_vars

\* resolve returned on a registry whose chosen versions depend on each
\* other in a cycle, after skipping a key it met again.
C14_Witness ==
    /\ pc \in {"resolved", "failed"}
    /\ error \in {"", "CircularDependency"}
    /\ resolved_versions["c"] = <<2, 0, 0>>
    /\ \E d \in ChosenMeta("c").dependencies : d[1] = "a"
    /\ resolved_versions["a"] # NoVersion
    /\ \E d \in ChosenMeta("a").dependencies : d[1] = "c"

\* The item the next loop iteration pops, and its visited key.
Popped == queue[Len(queue)]
PoppedKey == <<Popped.name, Popped.constraint>>

RequestsFor(url) == Cardinality({i \in DOMAIN fetched : fetched[i] = url})

\* C18: an install that failed with a Network error on a 503 reply retried
\* the fetch, at most network.retries times, before it failed; one that
\* failed on a 404 reply or on an integrity mismatch sent the request once.
C18_BoundedRetry ==
    (pc = "failed" /\ error \in {"Network", "IntegrityCheckFailed"} /\ fetched # <<>>)
        => LET url == fetched[Len(fetched)]
           IN IF error = "Network" /\ archives[url].status = 503
              THEN RequestsFor(url) \in 2..(1 + RETRIES)
              ELSE RequestsFor(url) = 1

\* C16: whatever a run reads from the shared cache (has_package, the
\* existing-directory test of extract, the tarball extract reads, the tree
\* link copies) was complete when it was read.
C16_AtomicCacheWrites ==
    \A r \in Runs : \A o \in proc[r].saw : o.complete

\* C17: a run with prefer_offline sends no request for a package whose
\* archive is complete in the cache.
C17_OfflineNoRequest ==
    \A r \in Runs : proc[r].prefer_offline => \A q \in proc[r].requests : ~q.archive_cached

C21_MetadataTtl ==
    (call.op = "get_metadata" /\ call.input.file.exists)
        => IF call.input.at - call.input.file.cached_at > metadata_ttl
           THEN call.output = None
           ELSE call.output = Some(call.input.file.data)

\* C22: for a sha256 or sha512 integrity string, verify returns Ok(true)
\* exactly when the digest in the string is the digest of the data under the
\* named algorithm and Ok(false) otherwise, and verify_detailed returns Ok in
\* the first case and IntegrityCheckFailed in the second.
C22_VerifyExact ==
    (call.op \in {"verify", "verify_detailed"}
        /\ call.input.integrity.algo \in {"sha256", "sha512"})
    => LET equal == call.input.integrity.digest
                        = Digest(call.input.integrity.algo, call.input.data)
       IN call.output = IF call.op = "verify"
                        THEN (IF equal THEN "Ok(true)" ELSE "Ok(false)")
                        ELSE (IF equal THEN "Ok" ELSE "IntegrityCheckFailed")

\* verify_detailed rejected data that differs from the data a sha512 string
\* was computed from.
C22_Witness ==
    /\ call.op = "verify_detailed"
    /\ call.input.integrity = IntegrityOf("sha512", GoodBytes)
    /\ call.input.data = TamperedBytes
    /\ call.output = "IntegrityCheckFailed"

\* C23: for an integrity string whose prefix is none of sha512, sha256 and
\* sha1, verify returns Ok(true), verify_detailed returns Ok and the
\* downloader's check returns Ok.
C23_UnknownAlgorithmPasses ==
    (call.op \in {"verify", "verify_detailed", "verify_integrity_static"}
        /\ call.input.integrity.algo \notin {"sha512", "sha256", "sha1", ""})
    => call.output = IF call.op = "verify" THEN "Ok(true)" ELSE "Ok"

\* C24: VersionConstraint::parse returns no error, whatever the string.
C24_ParseNeverFails ==
    call.op = "parse" => call.output.kind # "Err"

\* C25: ^X.Y.Z matches v iff X.Y.Z <= v < (X+1).0.0 when X >= 1, iff
\* 0.Y.Z <= v < 0.(Y+1).0 when X = 0 and Y >= 1, and iff v is 0.0.Z when
\* X = Y = 0, for versions with and without a pre-release tag.
C25_CaretSemantics ==
    (call.op = "matches" /\ call.input.constraint.kind = "Caret")
    => LET c == call.input.constraint.v
           v == call.input.version
       IN call.output =
            IF c[1] >= 1 THEN VLe(c, v) /\ VLt(v, <<c[1] + 1, 0, 0>>)
            ELSE IF c[2] >= 1 THEN VLe(c, v) /\ VLt(v, <<0, c[2] + 1, 0>>)
            ELSE v[1] = 0 /\ v[2] = 0 /\ v[3] = c[3]

\* C26: ~X.Y.Z matches v iff X.Y.Z <= v < X.(Y+1).0, for versions with and
\* without a pre-release tag.
C26_TildeSemantics ==
    (call.op = "matches" /\ call.input.constraint.kind = "Tilde")
    => LET c == call.input.constraint.v
           v == call.input.version
       IN call.output = (VLe(c, v) /\ VLt(v, <<c[1], c[2] + 1, 0>>))

\* C27: a name equal, after lowercasing, to an entry of the popular-package
\* list gets no typosquat warning from check_typosquat nor from analyze,
\* whatever the order in which the list is scanned.
C27_ExactMatchNoWarning ==
    ((call.op \in {"check_typosquat", "analyze"})
        /\ to_lowercase(call.input.name) \in POPULAR_PACKAGES)
    => ~(IF call.op = "analyze" THEN call.output.typosquat_warning.some
                                ELSE call.output.some)

\* C28: analyze reports High when some popular package is at distance exactly
\* 1 from the lowercased name, otherwise Medium when some popular package is
\* at distance 2 or the name contains a suspicious pattern, otherwise Low,
\* whatever the order in which the list is scanned.
C28_RiskLevel ==
    call.op = "analyze" =>
        LET normalized == to_lowercase(call.input.name)
            At(d) == \E popular \in POPULAR_PACKAGES : levenshtein(normalized, popular) = d
            Suspicious == \E i \in DOMAIN SUSPICIOUS_PATTERNS :
                              contains(normalized, SUSPICIOUS_PATTERNS[i])
        IN call.output.risk_level =
               IF At(1) THEN "High"
               ELSE IF At(2) \/ Suspicious THEN "Medium"
               ELSE "Low"


\* C29: an environment override with an unrecognised value leaves the
\* configured value as it was: VELOCITY_OFFLINE set to anything but "1" or
\* "true" does not change cache.offline, and a VELOCITY_CONCURRENCY or
\* VELOCITY_TIMEOUT that is not an integer does not change those fields.
C29_UnknownValueIgnored ==
    call.op = "apply_env_overrides" =>
        LET config == call.input.config
            env == call.input.env
            out == call.output
        IN /\ (env.VELOCITY_OFFLINE \notin {Unset, "1", "true"})
                  => out.offline = config.offline
           /\ (env.VELOCITY_CONCURRENCY # Unset /\ ~parse_int(env.VELOCITY_CONCURRENCY).ok)
                  => out.concurrency = config.concurrency
           /\ (env.VELOCITY_TIMEOUT # Unset /\ ~parse_int(env.VELOCITY_TIMEOUT).ok)
                  => out.timeout = config.timeout

\* C30: storing bytes that were stored before returns the hash it returned
\* before and, their blob still being in place, leaves the store as it was;
\* and get of the hash store returns yields the bytes stored.
C30_BlobIdempotence ==
    call.op = "store" =>
        /\ ContentStore_get(content_store, call.output) = Some(call.input.content)
        /\ \A r \in call.input.returned :
               r.content = call.input.content =>
                   /\ call.output = r.hash
                   /\ exists(call.input.before, hash_path(r.hash))
                          => content_store = call.input.before

\* A second store of bytes whose blob is in place.
C30_Witness ==
    /\ call.op = "store"
    /\ \E r \in call.input.returned :
           /\ r.content = call.input.content
           /\ exists(call.input.before, hash_path(r.hash))
    /\ Cardinality(content_store) >= 2

\* C31: for a lockfile with at most one entry per (name, version), the diff
\* of the lockfile with itself has empty added, removed and changed lists.
C31_DiffSelfEmpty ==
    (lf_op.op = "diff" /\ lf_op.arg.other = lf_op.before /\ OnePerIdentity(lf_op.before))
        => diff_is_empty(lf_op.arg.result)

\* A self-diff of a lockfile that holds two versions of one name.
C31_Witness ==
    /\ lf_op.op = "diff"
    /\ lf_op.arg.other = lf_op.before
    /\ OnePerIdentity(lf_op.before)
    /\ \E p, q \in Range(lf_op.before.packages) : p.name = q.name /\ p.version # q.version

\* C32: when resolve returns Ok, every regular and every optional dependency
\* an entry of the lockfile declares has an entry of its name in the
\* lockfile, however deep the chain of dependencies is.
C32_DependencyClosure ==
    pc = "resolved" =>
        \A p \in Range(lockfile.packages) :
            \A dep \in {d[1] : d \in Range(p.dependencies)} \cup Range(p.optional_dependencies) :
                \E q \in Range(lockfile.packages) : q.name = dep

\* C33: after install and link have succeeded, node_modules/<name> of every
\* resolved name is the extracted cache tree of the version the resolver
\* chose for the name.
C33_LinkedChosenVersion ==
    pc \in {"save", "done"} =>
        \A n \in ResolvedNames :
            /\ node_modules[n] = get_package_dir(n, resolved_versions[n])
            /\ has_package(fs_dirs, n, resolved_versions[n])

\* C34: when resolve returns Ok, the graph has an edge name -> dep for every
\* regular and every optional dependency of every resolved package, and
\* the node of each name is labelled with the version chosen for the name.
C34_GraphEdges ==
    pc = "resolved" =>
        /\ \A p \in Range(lockfile.packages) :
              \A dep \in {d[1] : d \in Range(p.dependencies)}
                             \cup Range(p.optional_dependencies) :
                  <<p.name, dep>> \in graph_edges
        /\ \A n \in ResolvedNames : <<n, resolved_versions[n]>> \in graph_nodes

\* C35: when resolve returns Ok, to_install and from_cache partition the
\* resolved entries: no (name, version) occurs twice within or across the
\* two lists, together they hold exactly the identities of the lockfile,
\* and an entry is in from_cache iff the cache holds its extracted tree.
C35_Partition ==
    pc = "resolved" =>
        LET all == to_install \o from_cache
            Id(r) == <<r.name, r.version>>
        IN /\ \A i, j \in DOMAIN all : Id(all[i]) = Id(all[j]) => i = j
           /\ {Id(r) : r \in Range(all)} = LockSet(lockfile)
           /\ \A r \in Range(from_cache) : has_package(fs_dirs, r.name, r.version)
           /\ \A r \in Range(to_install) : ~has_package(fs_dirs, r.name, r.version)

\* C36: resolve visits, fetches and emits only root dependencies and the
\* regular and optional dependencies of the packages it resolved: a package
\* reachable only through peerDependencies, or through devDependencies of
\* a package of the registry, is never fetched and never gets an entry.
C36_PeerDevNotResolved ==
    pc \in {"resolving", "resolved"} =>
        LET Touched == {k[1] : k \in visited}
                       \cup {n \in DOMAIN meta_fetched : meta_fetched[n] > 0}
                       \cup {p.name : p \in Range(lockfile.packages)}
                       \cup {r.name : r \in Range(to_install \o from_cache)}
            Declared == {d[1] : d \in root_deps}
                        \cup UNION {{d[1] : d \in Range(p.dependencies)}
                                    \cup Range(p.optional_dependencies) :
                                    p \in Range(lockfile.packages)}
        IN Touched \subseteq Declared

\* resolve has returned Ok with an entry that declares a peer dependency and
\* an entry whose package has a dev dependency, neither of which was visited.
C36_Witness ==
    /\ pc = "resolved"
    /\ \E p \in Range(lockfile.packages) :
          \E peer \in Range(p.peer_dependencies) : \A k \in visited : k[1] # peer
    /\ \E p \in Range(lockfile.packages) :
          \E dev \in VersionMeta(registry[p.name], p.version).dev_dependencies :
              \A k \in visited : k[1] # dev[1]

\* C37: once a run with force = true has finished install, every package for
\* which extract found the directory already present has, in the cache, the
\* extraction of the archive the run fetched and stored.
C37_ForceReextracts ==
    \A r \in Runs :
        proc[r].force /\ proc[r].pc \in {"link", "done"}
            => \A o \in proc[r].saw :
                   o.op = "extract_dir" /\ (\E q \in proc[r].requests : q.id = o.id)
                       => /\ o.id \in fs_dirs
                          /\ ExpectedFiles(o.id, archives[o.id].bytes) \subseteq fs_files

\* C38: an install with --frozen-lockfile goes on to the installer only when
\* a lockfile existed and the lockfile of the new resolution has the same
\* set of package entries as the existing one.
C38_FrozenSameEntries ==
    pc = "install" /\ args.frozen_lockfile
        => /\ existing_lockfile.status = "some"
           /\ Range(existing_lockfile.lockfile.packages) = Range(lockfile.packages)

\* C39: with allow_scripts = false and no grant of Scripts for the package
\* (neither grant nor set_package_permissions), should_run_script returns
\* false and check denies Scripts, so execute refuses to start the script,
\* for trusted and untrusted packages alike.
C39_ScriptsDenied ==
    LET package == call.input.package
        Granted == \/ /\ <<package, "Scripts">> \in DOMAIN security.cached_decisions
                      /\ security.cached_decisions[<<package, "Scripts">>] = "Allow"
                   \/ /\ package \in DOMAIN security.package_permissions
                      /\ security.package_permissions[package]["Scripts"] \in {"Allow", "Prompt"}
    IN ~security.config.allow_scripts
       /\ call.op \in {"should_run_script", "check", "execute"}
       /\ ~Granted
       => /\ call.op = "should_run_script" => call.output = FALSE
          /\ call.op = "check" /\ call.input.permission = "Scripts" => call.output = "Deny"
          /\ call.op = "execute" /\ call.input.permissions => call.output = "PermissionDenied"

\* C40: in Installer::install every network request for a to_install entry
\* comes after verify_package_allowed has been evaluated for that entry and
\* has returned Ok, and a check that returns an error is the last event of
\* the call: install has failed with nothing fetched for that entry or a
\* later one.
C40_PolicyGateFirst ==
    LET IsRequest(e) == e.op = "request"
    IN /\ \A j \in DOMAIN policy_log :
              IsRequest(policy_log[j])
                  => \E i \in 1..(j - 1) :
                         /\ policy_log[i].op = "verify_package_allowed"
                         /\ policy_log[i].name = policy_log[j].name
                         /\ policy_log[i].ok
                         /\ \A k \in (i + 1)..(j - 1) :
                                /\ IsRequest(policy_log[k])
                                /\ policy_log[k].name = policy_log[j].name
       /\ \A i \in DOMAIN policy_log :
              policy_log[i].op = "verify_package_allowed" /\ ~policy_log[i].ok
                  => i = Len(policy_log) /\ pc = "failed" /\ error = "PermissionDenied"
       /\ pc \in {"installing", "link"}
              => /\ Len(SelectSeq(policy_log, IsRequest)) = Len(fetched)
                 /\ \A j \in DOMAIN fetched :
                        SelectSeq(policy_log, IsRequest)[j].name = fetched[j][1]

\* An install that skipped an entry, checked another and sent its request.
C40_Witness ==
    /\ pc = "link"
    /\ counts.cached_count > Len(from_cache)
    /\ \E j \in DOMAIN policy_log : policy_log[j].op = "request"

====
